---------------------------- MODULE Spec2Model ----------------------------
(***************************************************************************)
(* A model of the IPC-2581 document builder of src/ipc_parse_tests_1.py.   *)
(*                                                                         *)
(* Attribute texts are sequences of one-character strings, so that the     *)
(* coercions of the Attribute Reader (str.isnumeric, int, float,           *)
(* str.lower) are computed character by character.  Names (tags, net       *)
(* names, layer names, dictionary ids) are opaque strings.                 *)
(*                                                                         *)
(* Python values are records [t, m, e]: t is the type ("None", "int",      *)
(* "float", "bool") or the exception raised ("ValueError", "KeyError",     *)
(* "NameError"); a float is the exact decimal m * 10^e, normalised.        *)
(***************************************************************************)
EXTENDS Integers, Sequences, FiniteSets, TLC

VARIABLES
    \* ---- Attribute Reader harness: one call of read_int/read_float/read_bool
    rd_d,        \* the attribute mapping d (a function from its keys to texts)
    rd_key,      \* the key asked for
    rd_fn,       \* "" before the call, then the coercer that was called
    rd_out,      \* [val |-> returned value or exception, warn |-> lines printed]
    \* ---- Point-chain harness: one Polygon / Polyline / Contour element, loaded
    ch_node,     \* the element handed to load()
    ch_pc,       \* "build" while the element is being written, then "done"
    ch_out,      \* the loader's result R(obj, err, log)
    \* ---- parse_LayerFeature of one IPC2581_Layer
    lf_pc,       \* "find", "sets" (inside the loop over Set), "done", "error"
    lf_seen,     \* the Set elements the loop has reached, in document order
    lf_layer,    \* the IPC2581_Layer object
    lf_err,      \* the exception that left parse_LayerFeature (NoErr if none)
    lf_log,      \* the lines printed
    \* ---- the build of one PCBAssembly from a document tree
    bd_pc,       \* the phase about to run: "Content", "LogisticHeader", "Bom",
                 \* "HistoryRecord", "BomAgain", "Layers" (head of the loop over
                 \* layer_refs; "StackupLayer", "LayerFeature", "Components"
                 \* inside one IPC2581_Layer), "Datum", "Packages"; or "done", "error"
    bd_root,     \* the tree handed to PCBAssembly(root)
    bd_global,   \* what the module-level name root is bound to
    bd_self,     \* the PCBAssembly object
    bd_next,     \* position in layer_refs of the loop over the layers
    bd_err,      \* the exception that left the constructor (NoErr if none)
    bd_log,      \* the lines printed
    bd_layer,    \* the IPC2581_Layer under construction
    bd_run,      \* 1 in the first PCBAssembly(root) of the process, 2 in the second
    bd_first,    \* the PCBAssembly the first run returned
    \* ---- one call of one loader on one element
    cl_fn,       \* "" before the call, then the loader that was called
    cl_self,     \* what the call is made on or with (an object, a name), if anything
    cl_node,     \* the element handed to the loader
    cl_out       \* the loader's result R(obj, err, log)

rdVars == <<rd_d, rd_key, rd_fn, rd_out>>

chVars == <<ch_node, ch_pc, ch_out>>

lfVars == <<lf_pc, lf_seen, lf_layer, lf_err, lf_log>>

bdVars ==
    <<bd_pc, bd_root, bd_global, bd_self, bd_next, bd_err, bd_log, bd_layer, bd_run,
      bd_first>>

clVars == <<cl_fn, cl_self, cl_node, cl_out>>

(***************************************************************************)
(* Python values                                                           *)
(***************************************************************************)
None == [t |-> "None", m |-> 0, e |-> 0]

IntV(n) == [t |-> "int", m |-> n, e |-> 0]

BoolV(b) == [t |-> "bool", m |-> IF b THEN 1 ELSE 0, e |-> 0]

Raise(exc) == [t |-> exc, m |-> 0, e |-> 0]

IsRaise(v) == v.t \in {"ValueError", "KeyError", "NameError", "AttributeError"}

RECURSIVE Normalise(_, _)
Normalise(m, e) ==
    IF m = 0 THEN [t |-> "float", m |-> 0, e |-> 0]
    ELSE IF m % 10 = 0 THEN Normalise(m \div 10, e + 1)
    ELSE [t |-> "float", m |-> m, e |-> e]

FloatV(m, e) == Normalise(m, e)

(***************************************************************************)
(* Texts                                                                   *)
(***************************************************************************)
DecDigits == {"0", "1", "2", "3", "4", "5", "6", "7", "8", "9"}

\* "sup2" is U+00B2 SUPERSCRIPT TWO: Numeric_Type=Digit, but no decimal digit.
NumericChars == DecDigits \cup {"sup2"}

DigitVal(c) ==
    CASE c = "0" -> 0 [] c = "1" -> 1 [] c = "2" -> 2 [] c = "3" -> 3
      [] c = "4" -> 4 [] c = "5" -> 5 [] c = "6" -> 6 [] c = "7" -> 7
      [] c = "8" -> 8 [] c = "9" -> 9 [] OTHER -> 0

AllIn(s, S) == \A i \in 1..Len(s) : s[i] \in S

\* str.isnumeric(): non-empty and every character numeric
isnumeric(s) == Len(s) > 0 /\ AllIn(s, NumericChars)

RECURSIVE DigitsToInt(_)
DigitsToInt(s) ==
    IF Len(s) = 0 THEN 0
    ELSE 10 * DigitsToInt(SubSeq(s, 1, Len(s) - 1)) + DigitVal(s[Len(s)])

\* str.lower() on the characters the model uses
LowerChar(c) == IF c = "T" THEN "t" ELSE c

lower(s) == [i \in 1..Len(s) |-> LowerChar(s[i])]

FirstPos(s, c) ==
    IF \E i \in 1..Len(s) : s[i] = c
    THEN CHOOSE i \in 1..Len(s) : s[i] = c /\ \A j \in 1..(i - 1) : s[j] # c
    ELSE 0

\* int(val), for a text without sign, blank or underscore: every character
\* must be a decimal digit, else ValueError.
PyInt(s) ==
    IF Len(s) > 0 /\ AllIn(s, DecDigits) THEN IntV(DigitsToInt(s))
    ELSE Raise("ValueError")

\* the part of s before position p, and the part after it (p = 0: no split)
Before(s, p) == IF p = 0 THEN s ELSE SubSeq(s, 1, p - 1)

After(s, p) == IF p = 0 THEN <<>> ELSE SubSeq(s, p + 1, Len(s))

Unsigned(s) == IF Len(s) > 0 /\ s[1] = "-" THEN Tail(s) ELSE s

Signed(s, n) == IF Len(s) > 0 /\ s[1] = "-" THEN 0 - n ELSE n

\* float of integer part ip, fraction fp and exponent text expo (hasE: an
\* "e" was written)
FloatOfParts(neg, ip, fp, hasE, expo) ==
    IF /\ AllIn(ip, DecDigits) /\ AllIn(fp, DecDigits) /\ Len(ip) + Len(fp) > 0
       /\ (hasE => Len(Unsigned(expo)) > 0 /\ AllIn(Unsigned(expo), DecDigits))
    THEN FloatV(IF neg THEN 0 - DigitsToInt(ip \o fp) ELSE DigitsToInt(ip \o fp),
                Signed(expo, DigitsToInt(Unsigned(expo))) - Len(fp))
    ELSE Raise("ValueError")

FloatOfMantExp(neg, mant, hasE, expo) ==
    FloatOfParts(neg, Before(mant, FirstPos(mant, ".")),
                 After(mant, FirstPos(mant, ".")), hasE, expo)

FloatOfBody(neg, body) ==
    FloatOfMantExp(neg, Before(body, FirstPos(body, "e")),
                   FirstPos(body, "e") # 0, After(body, FirstPos(body, "e")))

\* float(val) on texts over digits, "-", "." and "e":
\*   [-] (digits [. [digits]] | . digits) [e [-] digits]
PyFloat(s) == FloatOfBody(Len(s) > 0 /\ s[1] = "-", Unsigned(s))

(***************************************************************************)
(* Attribute Reader.  d is a function from attribute names to texts; the   *)
(* result pairs the returned value (or the exception raised) with the      *)
(* number of warning lines printed.                                        *)
(***************************************************************************)
Out(v, w) == [val |-> v, warn |-> w]

read_int(d, key) ==
    IF key \notin DOMAIN d THEN Out(None, 0)
    ELSE IF ~isnumeric(d[key]) THEN Out(None, 1)
    ELSE Out(PyInt(d[key]), 0)

\* try: return float(val) / except ValueError: print(...); return None
CatchValueError(v) == IF v.t = "ValueError" THEN Out(None, 1) ELSE Out(v, 0)

read_float(d, key) ==
    IF key \notin DOMAIN d THEN Out(None, 0)
    ELSE CatchValueError(PyFloat(d[key]))

read_bool(d, key) ==
    IF key \notin DOMAIN d THEN Out(None, 0)
    ELSE Out(BoolV(lower(d[key]) = <<"t", "r", "u", "e">>), 0)

(***************************************************************************)
(* Elements of the parsed tree (xml.etree.ElementTree.Element): a tag, an  *)
(* attribute mapping and the ordered children.  NoNode is find()'s None.   *)
(***************************************************************************)
NoAttrib == [k \in {} |-> <<>>]

E(tag, attrib, kids) == [tag |-> tag, attrib |-> attrib, kids |-> kids]

NoNode == E("", NoAttrib, <<>>)

IsNone(node) == node.tag = ""

\* Element.findall(tag): the children with that tag, in document order
findall(node, tag) == SelectSeq(node.kids, LAMBDA k : k.tag = tag)

FirstOrNone(nodes) == IF nodes = <<>> THEN NoNode ELSE Head(nodes)

\* Element.find(tag): the first child with that tag, or None
find(node, tag) == FirstOrNone(findall(node, tag))

(***************************************************************************)
(* Results of a loader: the object built, the exception that left it (exc  *)
(* is "" when it returned), and the warning lines it printed.              *)
(***************************************************************************)
NoErr == [exc |-> "", about |-> ""]

Err(exc, about) == [exc |-> exc, about |-> about]

R(obj, err, log) == [obj |-> obj, err |-> err, log |-> log]

Failed(r) == r.err.exc # ""

Warning(msg, about) == [msg |-> msg, about |-> about]

\* the line read_int / read_float print when they give up
WarnOf(out) ==
    IF out.warn > 0 THEN <<Warning("could not convert", "")>> ELSE <<>>

\* float(attrib[key]): KeyError when the key is missing
FloatAttr(attrib, key) ==
    IF key \notin DOMAIN attrib THEN Raise("KeyError") ELSE PyFloat(attrib[key])

\* the first exception met evaluating vs left to right ("" when none)
FirstRaise(vs) ==
    IF \E i \in 1..Len(vs) : IsRaise(vs[i])
    THEN vs[CHOOSE i \in 1..Len(vs) :
                IsRaise(vs[i]) /\ \A j \in 1..(i - 1) : ~IsRaise(vs[j])].t
    ELSE ""

\* the first failure of rs in order, else NoErr
FirstErr(rs) ==
    IF \E i \in 1..Len(rs) : Failed(rs[i])
    THEN rs[CHOOSE i \in 1..Len(rs) :
                Failed(rs[i]) /\ \A j \in 1..(i - 1) : ~Failed(rs[j])].err
    ELSE NoErr

(***************************************************************************)
(* Transform                                                               *)
(***************************************************************************)
IPC2581_Transform(rotation, mirror, xOffset, yOffset) ==
    [rotation |-> rotation, mirror |-> mirror,
     xOffset |-> xOffset, yOffset |-> yOffset]

\* IPC2581_Transform() with the constructor's defaults
DefaultTransform ==
    IPC2581_Transform(FloatV(0, 0), BoolV(FALSE), FloatV(0, 0), FloatV(0, 0))

\* (a variant that falls back to 0.0 and False, whatever the constructor got)
TransformFields_Reset(self, a, rot, mir, xo, yo) ==
    R([rotation |-> IF "rotation" \in DOMAIN a THEN rot.val ELSE FloatV(0, 0),
       mirror   |-> IF "mirror" \in DOMAIN a THEN mir.val ELSE BoolV(FALSE),
       xOffset  |-> IF "xOffset" \in DOMAIN a THEN xo.val ELSE FloatV(0, 0),
       yOffset  |-> IF "yOffset" \in DOMAIN a THEN yo.val ELSE FloatV(0, 0)],
      NoErr,
      WarnOf(rot) \o WarnOf(xo) \o WarnOf(yo))

\* the four "if '<name>' in xfrm_node.attrib.keys(): self.<name> = read_...()"
TransformFields(self, a, rot, mir, xo, yo) ==
    R([rotation |-> IF "rotation" \in DOMAIN a THEN rot.val ELSE self.rotation,
       mirror   |-> IF "mirror" \in DOMAIN a THEN mir.val ELSE self.mirror,
       xOffset  |-> IF "xOffset" \in DOMAIN a THEN xo.val ELSE self.xOffset,
       yOffset  |-> IF "yOffset" \in DOMAIN a THEN yo.val ELSE self.yOffset],
      NoErr,
      WarnOf(rot) \o WarnOf(xo) \o WarnOf(yo))

IPC2581_Transform_load(self, xfrm_node) ==
    IF xfrm_node.tag # "Xform"
    THEN R(self, Err("ValueError", xfrm_node.tag), <<>>)
    ELSE TransformFields(self, xfrm_node.attrib,
                         read_float(xfrm_node.attrib, "rotation"),
                         read_bool(xfrm_node.attrib, "mirror"),
                         read_float(xfrm_node.attrib, "xOffset"),
                         read_float(xfrm_node.attrib, "yOffset"))

(***************************************************************************)
(* Optional children shared by several loaders                             *)
(***************************************************************************)
NoTransform == [none |-> TRUE]

\* if xfrm_node is not None: t = IPC2581_Transform(); t.load(xfrm_node)
XformOf(xfrm_node) ==
    IF IsNone(xfrm_node) THEN R(NoTransform, NoErr, <<>>)
    ELSE IPC2581_Transform_load(DefaultTransform, xfrm_node)

LoadXformChild(node) == XformOf(find(node, "Xform"))

\* if ref_node is not None: <field> = ref_node.attrib['id']
IdOf(ref_node, default) ==
    IF IsNone(ref_node) THEN R(default, NoErr, <<>>)
    ELSE IF "id" \notin DOMAIN ref_node.attrib
    THEN R(default, Err("KeyError", "id"), <<>>)
    ELSE R(ref_node.attrib["id"], NoErr, <<>>)

LoadFillDescRef(node) == IdOf(find(node, "FillDescRef"), "")

LoadStandardPrimitiveRef(node) == IdOf(find(node, "StandardPrimitiveRef"), "")

\* loc_node = node.find('Location'): (read_float x, read_float y), else the
\* constructor's (0.0, 0.0)
LocationOf(loc_node, x, y) ==
    IF IsNone(loc_node) THEN R(<<FloatV(0, 0), FloatV(0, 0)>>, NoErr, <<>>)
    ELSE R(<<x.val, y.val>>, NoErr, WarnOf(x) \o WarnOf(y))

LoadLocation(node) ==
    LocationOf(find(node, "Location"),
               read_float(find(node, "Location").attrib, "x"),
               read_float(find(node, "Location").attrib, "y"))

(***************************************************************************)
(* Circle, RectCenter, Oval                                                *)
(***************************************************************************)
CircleOf(dia, fdr, xf) ==
    R([kind |-> "Circle", diameter |-> dia.val,
       fill_desc_ref |-> fdr.obj, transform |-> xf.obj],
      FirstErr(<<fdr, xf>>), WarnOf(dia) \o xf.log)

IPC2581_Circle_load(circle_node) ==
    IF circle_node.tag # "Circle"
    THEN R([kind |-> "Circle"], Err("ValueError", circle_node.tag), <<>>)
    ELSE CircleOf(read_float(circle_node.attrib, "diameter"),
                  LoadFillDescRef(circle_node), LoadXformChild(circle_node))

WidthHeightOf(tag, w, h, fdr, xf) ==
    R([kind |-> tag, width |-> w.val, height |-> h.val,
       fill_desc_ref |-> fdr.obj, transform |-> xf.obj],
      FirstErr(<<fdr, xf>>), WarnOf(w) \o WarnOf(h) \o xf.log)

IPC2581_RectCenter_load(rc_node) ==
    IF rc_node.tag # "RectCenter"
    THEN R([kind |-> "RectCenter"], Err("ValueError", rc_node.tag), <<>>)
    ELSE WidthHeightOf("RectCenter", read_float(rc_node.attrib, "width"),
                       read_float(rc_node.attrib, "height"),
                       LoadFillDescRef(rc_node), LoadXformChild(rc_node))

IPC2581_Oval_load(oval_node) ==
    IF oval_node.tag # "Oval"
    THEN R([kind |-> "Oval"], Err("ValueError", oval_node.tag), <<>>)
    ELSE WidthHeightOf("Oval", read_float(oval_node.attrib, "width"),
                       read_float(oval_node.attrib, "height"),
                       LoadFillDescRef(oval_node), LoadXformChild(oval_node))

(***************************************************************************)
(* Line, Arc: float() and attrib[...] directly, so these raise             *)
(***************************************************************************)
\* the constructor's lineEnd = 'ROUND', lineWidth = 0.0
DefaultLineDesc == [lineEnd |-> "ROUND", lineWidth |-> FloatV(0, 0)]

\* if cl_node is not None: lineEnd = cl_node.attrib['lineEnd'];
\*                         lineWidth = float(cl_node.attrib['lineWidth'])
LineDescOf(ld_node, lw) ==
    IF IsNone(ld_node) THEN R(DefaultLineDesc, NoErr, <<>>)
    ELSE IF "lineEnd" \notin DOMAIN ld_node.attrib
    THEN R(DefaultLineDesc, Err("KeyError", "lineEnd"), <<>>)
    ELSE IF IsRaise(lw) THEN R(DefaultLineDesc, Err(lw.t, "lineWidth"), <<>>)
    ELSE R([lineEnd |-> ld_node.attrib["lineEnd"], lineWidth |-> lw], NoErr, <<>>)

LoadLineDescStrict(node) ==
    LineDescOf(find(node, "LineDesc"),
               FloatAttr(find(node, "LineDesc").attrib, "lineWidth"))

LineOf(cs, ld) ==
    IF FirstRaise(cs) # ""
    THEN R([kind |-> "Line"], Err(FirstRaise(cs), "Line"), <<>>)
    ELSE R([kind |-> "Line", start_pos |-> <<cs[1], cs[2]>>,
            end_pos |-> <<cs[3], cs[4]>>,
            lineEnd |-> ld.obj.lineEnd, lineWidth |-> ld.obj.lineWidth],
           ld.err, <<>>)

IPC2581_Line_load(line_node) ==
    IF line_node.tag # "Line"
    THEN R([kind |-> "Line"], Err("ValueError", line_node.tag), <<>>)
    ELSE LineOf(<<FloatAttr(line_node.attrib, "startX"),
                  FloatAttr(line_node.attrib, "startY"),
                  FloatAttr(line_node.attrib, "endX"),
                  FloatAttr(line_node.attrib, "endY")>>,
                LoadLineDescStrict(line_node))

ArcOf(a, cs, ld) ==
    IF FirstRaise(cs) # ""
    THEN R([kind |-> "Arc"], Err(FirstRaise(cs), "Arc"), <<>>)
    ELSE IF "clockwise" \notin DOMAIN a
    THEN R([kind |-> "Arc"], Err("KeyError", "clockwise"), <<>>)
    ELSE R([kind |-> "Arc", start_pos |-> <<cs[1], cs[2]>>,
            end_pos |-> <<cs[3], cs[4]>>, center_pos |-> <<cs[5], cs[6]>>,
            clockwise |-> BoolV(a["clockwise"] = "true"),
            lineEnd |-> ld.obj.lineEnd, lineWidth |-> ld.obj.lineWidth],
           ld.err, <<>>)

IPC2581_Arc_load(arc_node) ==
    IF arc_node.tag # "Arc"
    THEN R([kind |-> "Arc"], Err("ValueError", arc_node.tag), <<>>)
    ELSE ArcOf(arc_node.attrib,
               <<FloatAttr(arc_node.attrib, "startX"),
                 FloatAttr(arc_node.attrib, "startY"),
                 FloatAttr(arc_node.attrib, "endX"),
                 FloatAttr(arc_node.attrib, "endY"),
                 FloatAttr(arc_node.attrib, "centerX"),
                 FloatAttr(arc_node.attrib, "centerY")>>,
               LoadLineDescStrict(arc_node))

(***************************************************************************)
(* Point chains: Polygon, Polyline, Contour                                *)
(***************************************************************************)
\* lineWidth: str = '' of IPC2581_Polyline.__init__
StrEmpty == [t |-> "str", m |-> 0, e |-> 0]

IPC2581_PolyStepCurve(center, clockwise) ==
    [kind |-> "Curve", center |-> center, clockwise |-> clockwise]

\* the lists and fields one loop over chain children fills
NewChain ==
    [points |-> <<>>, connections |-> <<>>, fill_desc_ref |-> "",
     lineEnd |-> "", lineWidth |-> StrEmpty, err |-> NoErr, log |-> <<>>]

\* PolyStepCurve, after its point was appended: the connection
ChainCurve(st, a, cc) ==
    IF FirstRaise(cc) # "" THEN [st EXCEPT !.err = Err(FirstRaise(cc), "PolyStepCurve")]
    ELSE IF "clockwise" \notin DOMAIN a
    THEN [st EXCEPT !.err = Err("KeyError", "clockwise")]
    ELSE [st EXCEPT !.connections = Append(@,
                 IPC2581_PolyStepCurve(cc, BoolV(a["clockwise"] = "true")))]

\* PolyBegin / PolyStepSegment / PolyStepCurve with the point xy
ChainPoint(st, pnode, xy) ==
    IF FirstRaise(xy) # "" THEN [st EXCEPT !.err = Err(FirstRaise(xy), pnode.tag)]
    ELSE IF pnode.tag = "PolyBegin" THEN [st EXCEPT !.points = Append(@, xy)]
    ELSE IF pnode.tag = "PolyStepSegment"
    THEN [st EXCEPT !.points = Append(@, xy), !.connections = Append(@, None)]
    ELSE ChainCurve([st EXCEPT !.points = Append(@, xy)], pnode.attrib,
                    <<FloatAttr(pnode.attrib, "centerX"),
                      FloatAttr(pnode.attrib, "centerY")>>)

\* elif pnode.tag == prefix('LineDesc'), of IPC2581_Polyline.load
ChainLineDesc(st, a, lw) ==
    IF "lineEnd" \notin DOMAIN a THEN [st EXCEPT !.err = Err("KeyError", "lineEnd")]
    ELSE [st EXCEPT !.lineEnd = a["lineEnd"], !.lineWidth = lw.val,
                    !.log = @ \o WarnOf(lw)]

\* elif pnode.tag == prefix('FillDescRef'), of IPC2581_Contour.load
ChainFillDescRef(st, a) ==
    IF "id" \notin DOMAIN a THEN [st EXCEPT !.err = Err("KeyError", "id")]
    ELSE [st EXCEPT !.fill_desc_ref = a["id"]]

\* One pass of the body of "for pnode in ...": the three chain tags, and the
\* fourth branch of the loop named by mode (FillDescRef inside a Contour's
\* Polygon, LineDesc inside a Polyline); any other child is passed over.
ChainBody(st, pnode, mode) ==
    IF pnode.tag \in {"PolyBegin", "PolyStepSegment", "PolyStepCurve"}
    THEN ChainPoint(st, pnode, <<FloatAttr(pnode.attrib, "x"),
                                 FloatAttr(pnode.attrib, "y")>>)
    ELSE IF mode = "Contour" /\ pnode.tag = "FillDescRef"
    THEN ChainFillDescRef(st, pnode.attrib)
    ELSE IF mode = "Polyline" /\ pnode.tag = "LineDesc"
    THEN ChainLineDesc(st, pnode.attrib, read_float(pnode.attrib, "lineWidth"))
    ELSE st

\* the loop over the children from the i-th on, left at the first exception
\* (each pass is computed once, as a value, before the next one starts)
RECURSIVE ChainLoopFrom(_, _, _, _)
ChainLoopFrom(st, kids, i, mode) ==
    IF i > Len(kids) \/ st.err.exc # "" THEN st
    ELSE CHOOSE r \in {ChainLoopFrom(s2, kids, i + 1, mode) :
                          s2 \in {ChainBody(st, kids[i], mode)}} : TRUE

ChainLoop(st, kids, mode) == ChainLoopFrom(st, kids, 1, mode)

PolygonOf(st) ==
    R([kind |-> "Polygon", points |-> st.points, connections |-> st.connections],
      st.err, st.log)

IPC2581_Polygon_load(poly_node) ==
    IF poly_node.tag # "Polygon"
    THEN R([kind |-> "Polygon"], Err("ValueError", poly_node.tag), <<>>)
    ELSE PolygonOf(ChainLoop(NewChain, poly_node.kids, "Polygon"))

PolylineOf(st) ==
    R([kind |-> "Polyline", points |-> st.points, connections |-> st.connections,
       lineEnd |-> st.lineEnd, lineWidth |-> st.lineWidth], st.err, st.log)

IPC2581_Polyline_load(poly_node) ==
    IF poly_node.tag # "Polyline"
    THEN R([kind |-> "Polyline"], Err("ValueError", poly_node.tag), <<>>)
    ELSE PolylineOf(ChainLoop(NewChain, poly_node.kids, "Polyline"))

\* for cutout_node in cutout_nodes: for pnode in cutout_node: ... : every
\* Cutout is read into the same two lists cutout_points, cutout_connections
RECURSIVE CutoutLoopFrom(_, _, _)
CutoutLoopFrom(st, cutout_nodes, i) ==
    IF i > Len(cutout_nodes) \/ st.err.exc # "" THEN st
    ELSE CHOOSE r \in {CutoutLoopFrom(s2, cutout_nodes, i + 1) :
                          s2 \in {ChainLoop(st, cutout_nodes[i].kids, "Cutout")}} : TRUE

CutoutLoop(st, cutout_nodes) == CutoutLoopFrom(st, cutout_nodes, 1)

ContourOf(outer, cut) ==
    R([kind |-> "Contour", points |-> outer.points,
       connections |-> outer.connections,
       cutout_points |-> cut.points,
       cutout_connections |-> cut.connections,
       fill_desc_ref |-> outer.fill_desc_ref],
      IF outer.err.exc # "" THEN outer.err ELSE cut.err, <<>>)

\* the cutout loop runs only when the Polygon loop returned
ContourAfterOuter(ct_node, outer) ==
    ContourOf(outer, IF outer.err.exc # "" THEN NewChain
                     ELSE CutoutLoop(NewChain, findall(ct_node, "Cutout")))

\* poly_node = ct_node.find('Polygon'); if poly_node is not None: for ...
ContourOuter(poly_node) ==
    IF IsNone(poly_node) THEN NewChain
    ELSE ChainLoop(NewChain, poly_node.kids, "Contour")

IPC2581_Contour_load(ct_node) ==
    IF ct_node.tag # "Contour"
    THEN R([kind |-> "Contour"], Err("ValueError", ct_node.tag), <<>>)
    ELSE ContourAfterOuter(ct_node, ContourOuter(find(ct_node, "Polygon")))

(***************************************************************************)
(* Pad                                                                     *)
(***************************************************************************)
\* pinref_node = pad_node.find('PinRef'): pin, and componentRef when given
PinRefOf(pinref_node) ==
    IF IsNone(pinref_node) THEN R([pin |-> "", componentRef |-> ""], NoErr, <<>>)
    ELSE IF "pin" \notin DOMAIN pinref_node.attrib
    THEN R([pin |-> "", componentRef |-> ""], Err("KeyError", "pin"), <<>>)
    ELSE R([pin |-> pinref_node.attrib["pin"],
            componentRef |-> IF "componentRef" \in DOMAIN pinref_node.attrib
                             THEN pinref_node.attrib["componentRef"] ELSE ""],
           NoErr, <<>>)

PadOf(pad_node, loc, spr, pinref) ==
    R([kind |-> "Pad", padstackDefRef |-> pad_node.attrib["padstackDefRef"],
       loc |-> loc.obj, std_prim_ref |-> spr.obj,
       pin |-> pinref.obj.pin, pin_componentRef |-> pinref.obj.componentRef],
      FirstErr(<<spr, pinref>>), loc.log)

IPC2581_Pad_load(pad_node) ==
    IF pad_node.tag # "Pad"
    THEN R([kind |-> "Pad"], Err("ValueError", pad_node.tag), <<>>)
    ELSE IF "padstackDefRef" \notin DOMAIN pad_node.attrib
    THEN R([kind |-> "Pad"], Err("KeyError", "padstackDefRef"), <<>>)
    ELSE PadOf(pad_node, LoadLocation(pad_node),
               LoadStandardPrimitiveRef(pad_node), PinRefOf(find(pad_node, "PinRef")))

(***************************************************************************)
(* NonstandardAttribute children: a dict name -> value, last one wins      *)
(***************************************************************************)
NonstdNames(nodes) == {nodes[i].attrib["name"] : i \in 1..Len(nodes)}

LastNamed(nodes, n) ==
    nodes[CHOOSE i \in 1..Len(nodes) :
              /\ nodes[i].attrib["name"] = n
              /\ \A j \in (i + 1)..Len(nodes) : nodes[j].attrib["name"] # n]

\* for nonstd in nodes: d[nonstd.attrib['name']] = nonstd.attrib['value']
NonstdDict(nodes) ==
    IF \E i \in 1..Len(nodes) : ~({"name", "value"} \subseteq DOMAIN nodes[i].attrib)
    THEN R(NoAttrib, Err("KeyError", "NonstandardAttribute"), <<>>)
    ELSE R([n \in NonstdNames(nodes) |-> LastNamed(nodes, n).attrib["value"]],
           NoErr, <<>>)

(***************************************************************************)
(* IPC2581_Layer.NetVia                                                    *)
(***************************************************************************)
NoPad == [kind |-> "None"]

\* if pad_node is not None: self.pad = IPC2581_Pad(); self.pad.load(pad_node)
ViaPadOf(pad_node) ==
    IF IsNone(pad_node) THEN R(NoPad, NoErr, <<>>) ELSE IPC2581_Pad_load(pad_node)

NetViaOf(a, pad, nonstd) ==
    R([pad |-> pad.obj,
       nonstd_attrib |-> nonstd.obj,
       plate |-> BoolV("plate" \in DOMAIN a /\ a["plate"] = "true"),
       testPoint |-> BoolV("testPoint" \in DOMAIN a /\ a["testPoint"] = "true")],
      FirstErr(<<pad, nonstd>>),
      (IF a["padUsage"] \notin {"VIA", "NONE"}
       THEN <<Warning("via with padUsage", a["padUsage"])>> ELSE <<>>) \o pad.log)

NetVia_load(set_node) ==
    IF set_node.tag # "Set"
    THEN R([pad |-> NoPad], Err("ValueError", set_node.tag), <<>>)
    ELSE IF "padUsage" \notin DOMAIN set_node.attrib
    THEN R([pad |-> NoPad], Err("KeyError", "padUsage"),
           <<Warning("via without padUsage", "")>>)
    ELSE NetViaOf(set_node.attrib, ViaPadOf(find(set_node, "Pad")),
                  NonstdDict(findall(set_node, "NonstandardAttribute")))

(***************************************************************************)
(* IPC2581_Layer.LayerNet                                                  *)
(***************************************************************************)
LayerNet(name) ==
    [name |-> name, feature_locations |-> <<>>, features |-> <<>>,
     Xform |-> NoTransform]

ShapeTags ==
    {"Circle", "Line", "RectCenter", "Oval", "Arc", "Contour", "Polygon", "Polyline"}

\* shape = IPC2581_<tag>(); shape.load(node)
LoadShape(node) ==
    CASE node.tag = "Circle"     -> IPC2581_Circle_load(node)
      [] node.tag = "Line"       -> IPC2581_Line_load(node)
      [] node.tag = "RectCenter" -> IPC2581_RectCenter_load(node)
      [] node.tag = "Oval"       -> IPC2581_Oval_load(node)
      [] node.tag = "Arc"        -> IPC2581_Arc_load(node)
      [] node.tag = "Contour"    -> IPC2581_Contour_load(node)
      [] node.tag = "Polygon"    -> IPC2581_Polygon_load(node)
      [] node.tag = "Polyline"   -> IPC2581_Polyline_load(node)
      [] OTHER -> R([kind |-> ""], Err("ValueError", node.tag), <<>>)

\* self.feature_locations.append((read_float x, read_float y))
FeatureLocation(st, x, y) ==
    R([st.obj EXCEPT !.feature_locations = Append(@, <<x.val, y.val>>)],
      NoErr, st.log \o WarnOf(x) \o WarnOf(y))

\* (a variant that keeps the Transform the LayerNet already has)
FeatureXform_KeepFirst(st, xf) ==
    IF st.obj.Xform # NoTransform THEN st
    ELSE R([st.obj EXCEPT !.Xform = xf.obj], xf.err, st.log \o xf.log)

\* self.Xform = IPC2581_Transform(); self.Xform.load(child)
FeatureXform(st, xf) ==
    R([st.obj EXCEPT !.Xform = xf.obj], xf.err, st.log \o xf.log)

\* self.features.append(child.attrib['id'])
FeatureRef(st, a) ==
    IF "id" \notin DOMAIN a THEN R(st.obj, Err("KeyError", "id"), st.log)
    ELSE R([st.obj EXCEPT !.features = Append(@, [kind |-> "Ref", id |-> a["id"]])],
           NoErr, st.log)

\* shape.load(child); self.features.append(shape)
FeatureShape(st, shape) ==
    IF Failed(shape) THEN R(st.obj, shape.err, st.log \o shape.log)
    ELSE R([st.obj EXCEPT !.features = Append(@, shape.obj)],
           NoErr, st.log \o shape.log)

\* one pass of "for child in feat_node"
FeatureBody(st, child) ==
    IF child.tag = "Location"
    THEN FeatureLocation(st, read_float(child.attrib, "x"),
                         read_float(child.attrib, "y"))
    ELSE IF child.tag = "Xform"
    THEN FeatureXform(st, IPC2581_Transform_load(DefaultTransform, child))
    ELSE IF child.tag = "UserPrimitiveRef"
    THEN FeatureRef(st, child.attrib)
    ELSE IF child.tag \in ShapeTags
    THEN FeatureShape(st, LoadShape(child))
    ELSE R(st.obj, Err("ValueError", child.tag), st.log)

RECURSIVE FeatureLoopFrom(_, _, _)
FeatureLoopFrom(st, kids, i) ==
    IF i > Len(kids) \/ Failed(st) THEN st
    ELSE CHOOSE r \in {FeatureLoopFrom(s2, kids, i + 1) :
                          s2 \in {FeatureBody(st, kids[i])}} : TRUE

\* LayerNet.load_feature(feat_node) on the LayerNet self
load_feature(self, feat_node) ==
    IF feat_node.tag # "Features"
    THEN R(self, Err("ValueError", feat_node.tag), <<>>)
    ELSE FeatureLoopFrom(R(self, NoErr, <<>>), feat_node.kids, 1)

(***************************************************************************)
(* IPC2581_Layer                                                           *)
(***************************************************************************)
Unset == [t |-> "unset", m |-> 0, e |-> 0]

NoNets == [n \in {} |-> LayerNet("")]

\* the fields IPC2581_Layer.__init__ assigns before it starts parsing; an
\* attribute it does not assign (tolMinus) does not exist yet
NewLayer(name) ==
    [name |-> name, function |-> "", side |-> "", polarity |-> "",
     thickness |-> FloatV(0, 0), tolPlus |-> FloatV(0, 0),
     tolminus |-> FloatV(0, 0), tolMinus |-> Unset, sequence |-> IntV(0 - 1),
     physical_net_points |-> <<>>,
     nets |-> NoNets, nonet_geom |-> <<>>, vias |-> <<>>, pads_not_used |-> <<>>,
     components |-> <<>>]

\* (a variant that makes a new LayerNet for every grouping)
GetOrCreateNet_AlwaysNew(nets, net_name) ==
    [n \in DOMAIN nets \cup {net_name} |->
        IF n = net_name THEN LayerNet(net_name) ELSE nets[n]]

\* if net_name not in self.nets.keys(): self.nets[net_name] = LayerNet(net_name)
GetOrCreateNet(nets, net_name) ==
    IF net_name \in DOMAIN nets THEN nets
    ELSE [n \in DOMAIN nets \cup {net_name} |->
             IF n = net_name THEN LayerNet(net_name) ELSE nets[n]]

\* layernet = self.nets[net_name]; layernet.load_feature(feats_node)
StoreNet(layer, net_name, loaded) ==
    R([layer EXCEPT !.nets = [GetOrCreateNet(layer.nets, net_name)
                                 EXCEPT ![net_name] = loaded.obj]],
      loaded.err, loaded.log)

SetNetGeometry(layer, net_name, feats_node) ==
    IF IsNone(feats_node)
    THEN R([layer EXCEPT !.nets = GetOrCreateNet(layer.nets, net_name)], NoErr, <<>>)
    ELSE StoreNet(layer, net_name,
                  load_feature(GetOrCreateNet(layer.nets, net_name)[net_name],
                               feats_node))

\* nonet.load_feature(feats_node); self.nonet_geom.append(nonet)
StoreNoNet(layer, loaded) ==
    R([layer EXCEPT !.nonet_geom = Append(@, loaded.obj)], loaded.err, loaded.log)

\* (a variant that records the empty LayerNet of a Set without Features)
SetNoNetGeometry_AlwaysRecorded(layer, feats_node) ==
    IF IsNone(feats_node) THEN StoreNoNet(layer, R(LayerNet(""), NoErr, <<>>))
    ELSE StoreNoNet(layer, load_feature(LayerNet(""), feats_node))

SetNoNetGeometry(layer, feats_node) ==
    IF IsNone(feats_node) THEN R(layer, NoErr, <<>>)
    ELSE StoreNoNet(layer, load_feature(LayerNet(""), feats_node))

\* via = NetVia(); via.load(set_node); self.vias.append(via)
StoreVia(layer, via) ==
    R([layer EXCEPT !.vias = Append(@, via.obj)], via.err, via.log)

\* pad_not_used = NetVia(); ...; self.pads_not_used.append(pad_not_used)
StorePadNotUsed(layer, via) ==
    R([layer EXCEPT !.pads_not_used = Append(@, via.obj)], via.err, via.log)

\* (a variant that looks at the geometry attribute before padUsage)
ProcessSet_GeometryFirst(layer, set_node) ==
    IF "net" \in DOMAIN set_node.attrib
    THEN IF "geometry" \in DOMAIN set_node.attrib
         THEN R(layer, NoErr, <<>>)
         ELSE IF "padUsage" \in DOMAIN set_node.attrib
         THEN IF set_node.attrib["padUsage"] = "VIA"
              THEN StoreVia(layer, NetVia_load(set_node))
              ELSE IF set_node.attrib["padUsage"] = "NONE"
              THEN StorePadNotUsed(layer, NetVia_load(set_node))
              ELSE R(layer, NoErr, <<>>)
         ELSE SetNetGeometry(layer, set_node.attrib["net"], find(set_node, "Features"))
    ELSE SetNoNetGeometry(layer, find(set_node, "Features"))

\* (a variant that reads a Set with a geometry attribute as net geometry)
ProcessSet_GeometryAsNet(layer, set_node) ==
    IF "net" \in DOMAIN set_node.attrib
    THEN IF "padUsage" \in DOMAIN set_node.attrib
         THEN IF set_node.attrib["padUsage"] = "VIA"
              THEN StoreVia(layer, NetVia_load(set_node))
              ELSE IF set_node.attrib["padUsage"] = "NONE"
              THEN StorePadNotUsed(layer, NetVia_load(set_node))
              ELSE R(layer, NoErr, <<>>)
         ELSE SetNetGeometry(layer, set_node.attrib["net"], find(set_node, "Features"))
    ELSE SetNoNetGeometry(layer, find(set_node, "Features"))

\* (a variant that reads a Set with another padUsage as net geometry)
ProcessSet_OtherUsageAsNet(layer, set_node) ==
    IF "net" \in DOMAIN set_node.attrib
    THEN IF "padUsage" \in DOMAIN set_node.attrib
              /\ set_node.attrib["padUsage"] \in {"VIA", "NONE"}
         THEN IF set_node.attrib["padUsage"] = "VIA"
              THEN StoreVia(layer, NetVia_load(set_node))
              ELSE StorePadNotUsed(layer, NetVia_load(set_node))
         ELSE IF "geometry" \in DOMAIN set_node.attrib
         THEN R(layer, NoErr, <<>>)
         ELSE SetNetGeometry(layer, set_node.attrib["net"], find(set_node, "Features"))
    ELSE SetNoNetGeometry(layer, find(set_node, "Features"))

\* the body of "for set_node in layerfeat_node.findall('Set')"
ProcessSet(layer, set_node) ==
    IF "net" \in DOMAIN set_node.attrib
    THEN IF "padUsage" \in DOMAIN set_node.attrib
         THEN IF set_node.attrib["padUsage"] = "VIA"
              THEN StoreVia(layer, NetVia_load(set_node))
              ELSE IF set_node.attrib["padUsage"] = "NONE"
              THEN StorePadNotUsed(layer, NetVia_load(set_node))
              ELSE R(layer, NoErr, <<>>)
         ELSE IF "geometry" \in DOMAIN set_node.attrib
         THEN R(layer, NoErr, <<>>)
         ELSE SetNetGeometry(layer, set_node.attrib["net"], find(set_node, "Features"))
    ELSE SetNoNetGeometry(layer, find(set_node, "Features"))

(***************************************************************************)
(* Paths in the document tree                                              *)
(***************************************************************************)
RECURSIVE KidsTaggedFrom(_, _, _)
KidsTaggedFrom(nodes, tag, i) ==
    IF i > Len(nodes) THEN <<>>
    ELSE findall(nodes[i], tag) \o KidsTaggedFrom(nodes, tag, i + 1)

RECURSIVE PathFrom(_, _, _)
PathFrom(nodes, path, i) ==
    IF i > Len(path) THEN nodes
    ELSE CHOOSE r \in {PathFrom(ns, path, i + 1) :
                          ns \in {KidsTaggedFrom(nodes, path[i], 1)}} : TRUE

\* root.findall('a/b/c'): the elements at that path, in document order
findall_path(root, path) == PathFrom(<<root>>, path, 1)

\* root.findall('a/b/c[@key="value"]')
findall_where(root, path, key, value) ==
    SelectSeq(findall_path(root, path),
              LAMBDA n : key \in DOMAIN n.attrib /\ n.attrib[key] = value)

find_path(root, path) == FirstOrNone(findall_path(root, path))

find_where(root, path, key, value) == FirstOrNone(findall_where(root, path, key, value))

(***************************************************************************)
(* IPC2581_Layer.IPC2581_Component                                         *)
(***************************************************************************)
ComponentKeys == <<"refDes", "packageRef", "part", "mountType">>

\* the first of the four attributes read with attrib[...] that is missing
MissingKey(a, keys) ==
    IF \E i \in 1..Len(keys) : keys[i] \notin DOMAIN a
    THEN Err("KeyError",
             keys[CHOOSE i \in 1..Len(keys) :
                      keys[i] \notin DOMAIN a /\ \A j \in 1..(i - 1) : keys[j] \in DOMAIN a])
    ELSE NoErr

ComponentOf(a, standoff, height, loc, xf, nonstd) ==
    R([refDes |-> a["refDes"], packageRef |-> a["packageRef"], part |-> a["part"],
       mountType |-> a["mountType"], standoff |-> standoff.val, height |-> height.val,
       nonstd_attrib |-> nonstd.obj, loc |-> loc.obj, Xform |-> xf.obj],
      FirstErr(<<xf, nonstd>>),
      WarnOf(standoff) \o WarnOf(height) \o loc.log \o xf.log)

IPC2581_Component_load(comp_node) ==
    IF MissingKey(comp_node.attrib, ComponentKeys) # NoErr
    THEN R([refDes |-> ""], MissingKey(comp_node.attrib, ComponentKeys), <<>>)
    ELSE ComponentOf(comp_node.attrib,
                     read_float(comp_node.attrib, "standoff"),
                     read_float(comp_node.attrib, "height"),
                     LoadLocation(comp_node), LoadXformChild(comp_node),
                     NonstdDict(findall(comp_node, "NonstandardAttribute")))

(***************************************************************************)
(* IPC2581_Layer: the four parsing steps of the constructor.  Each takes   *)
(* the result so far (the layer, the exception in flight, the lines        *)
(* printed) and does nothing once an exception is in flight.               *)
(***************************************************************************)
LayerKeys == <<"layerFunction", "side", "polarity">>

LayerFields(st, a) ==
    IF MissingKey(a, LayerKeys) # NoErr THEN R(st.obj, MissingKey(a, LayerKeys), st.log)
    ELSE R([st.obj EXCEPT !.function = a["layerFunction"], !.side = a["side"],
                          !.polarity = a["polarity"]], NoErr, st.log)

\* (a variant that goes on without the Layer record)
LayerOrMissing_Tolerant(st, layer_node) ==
    IF IsNone(layer_node)
    THEN R(st.obj, NoErr, Append(st.log, Warning("no Layer", st.obj.name)))
    ELSE LayerFields(st, layer_node.attrib)

LayerOrMissing(st, layer_node) ==
    IF IsNone(layer_node) THEN R(st.obj, Err("ValueError", st.obj.name), st.log)
    ELSE LayerFields(st, layer_node.attrib)

parse_Layer(st, root) ==
    IF Failed(st) THEN st
    ELSE LayerOrMissing(st, find_where(root, <<"Ecad", "CadData", "Layer">>,
                                       "name", st.obj.name))

StackupFields(st, thickness, tolPlus, tolMinus, sequence) ==
    R([st.obj EXCEPT !.thickness = thickness.val, !.tolPlus = tolPlus.val,
                     !.tolMinus = tolMinus.val,
                     !.sequence = IF IsRaise(sequence.val) THEN @ ELSE sequence.val],
      IF IsRaise(sequence.val) THEN Err(sequence.val.t, "sequence") ELSE NoErr,
      st.log \o WarnOf(thickness) \o WarnOf(tolPlus) \o WarnOf(tolMinus)
             \o WarnOf(sequence))

StackupOrMissing(st, sl_node) ==
    IF IsNone(sl_node)
    THEN R(st.obj, NoErr, Append(st.log, Warning("no StackupLayer", st.obj.name)))
    ELSE StackupFields(st, read_float(sl_node.attrib, "thickness"),
                       read_float(sl_node.attrib, "tolPlus"),
                       read_float(sl_node.attrib, "tolMinus"),
                       read_int(sl_node.attrib, "sequence"))

parse_StackupLayer(st, root) ==
    IF Failed(st) THEN st
    ELSE StackupOrMissing(st, find_where(root,
                                  <<"Ecad", "CadData", "Stackup", "StackupGroup",
                                    "StackupLayer">>, "layerOrGroupRef", st.obj.name))

\* one pass of the loop over Set, on the result so far
SetBody(st, r) == R(r.obj, r.err, st.log \o r.log)

RECURSIVE SetLoopFrom(_, _, _)
SetLoopFrom(st, sets, i) ==
    IF i > Len(sets) \/ Failed(st) THEN st
    ELSE CHOOSE r \in {SetLoopFrom(s2, sets, i + 1) :
                          s2 \in {SetBody(st, ProcessSet(st.obj, sets[i]))}} : TRUE

LayerFeatureOrMissing(st, layerfeat_node) ==
    IF IsNone(layerfeat_node)
    THEN R(st.obj, NoErr, Append(st.log, Warning("no LayerFeature", st.obj.name)))
    ELSE SetLoopFrom(st, findall(layerfeat_node, "Set"), 1)

parse_LayerFeature(st, root) ==
    IF Failed(st) THEN st
    ELSE LayerFeatureOrMissing(st, find_where(root,
                                       <<"Ecad", "CadData", "Step", "LayerFeature">>,
                                       "layerRef", st.obj.name))

\* component.load(comp_node); self.components.append(component)
ComponentBody(st, c) ==
    IF Failed(c) THEN R(st.obj, c.err, st.log \o c.log)
    ELSE R([st.obj EXCEPT !.components = Append(@, c.obj)], NoErr, st.log \o c.log)

RECURSIVE ComponentLoopFrom(_, _, _)
ComponentLoopFrom(st, comp_nodes, i) ==
    IF i > Len(comp_nodes) \/ Failed(st) THEN st
    ELSE CHOOSE r \in {ComponentLoopFrom(s2, comp_nodes, i + 1) :
                          s2 \in {ComponentBody(st, IPC2581_Component_load(comp_nodes[i]))}} :
             TRUE

parse_Components(st, root) ==
    IF Failed(st) THEN st
    ELSE ComponentLoopFrom(st, findall_where(root, <<"Ecad", "CadData", "Step", "Component">>,
                                             "layerRef", st.obj.name), 1)

\* IPC2581_Layer(root, name)
IPC2581_Layer(root, name) ==
    parse_Components(
        parse_LayerFeature(
            parse_StackupLayer(
                parse_Layer(R(NewLayer(name), NoErr, <<>>), root), root), root), root)

(***************************************************************************)
(* IPC2581_Layer.add_physical_net_point                                    *)
(***************************************************************************)
PhyNetPointKeys == <<"netNode", "exposure">>

PhysicalNetPoint(a, x, y, via, primref) ==
    R([position |-> <<x.val, y.val>>, layer |-> "", net_node |-> a["netNode"],
       exposure |-> a["exposure"], via |-> via.val, primitive_ref |-> primref.obj],
      primref.err, WarnOf(x) \o WarnOf(y))

PhysicalNetPointOf(node) ==
    IF MissingKey(node.attrib, PhyNetPointKeys) # NoErr
    THEN R([layer |-> ""], MissingKey(node.attrib, PhyNetPointKeys),
           WarnOf(read_float(node.attrib, "x")) \o WarnOf(read_float(node.attrib, "y")))
    ELSE PhysicalNetPoint(node.attrib, read_float(node.attrib, "x"),
                          read_float(node.attrib, "y"), read_bool(node.attrib, "via"),
                          LoadStandardPrimitiveRef(node))

\* self.physical_net_points.append(pnp)
StorePhyNetPoint(self, pnp) ==
    IF Failed(pnp) THEN R(self, pnp.err, pnp.log)
    ELSE R([self EXCEPT !.physical_net_points = Append(@, pnp.obj)], NoErr, pnp.log)

add_physical_net_point(self, phynetpoint_node) ==
    IF phynetpoint_node.tag # "PhyNetPoint"
    THEN R(self, Err("ValueError", phynetpoint_node.tag), <<>>)
    ELSE IF "layerRef" \notin DOMAIN phynetpoint_node.attrib
    THEN R(self, Err("KeyError", "layerRef"), <<>>)
    ELSE IF phynetpoint_node.attrib["layerRef"] # self.name
    THEN R(self, Err("ValueError", phynetpoint_node.attrib["layerRef"]), <<>>)
    ELSE StorePhyNetPoint(self, PhysicalNetPointOf(phynetpoint_node))

NoShape == [kind |-> "None"]

(***************************************************************************)
(* IPC2581_UserSpecial                                                     *)
(***************************************************************************)
UserSpecialTags == {"Circle", "Line", "RectCenter", "Oval", "Arc", "Contour", "Polyline"}

\* shape.load(shape_node); self.shapes.append(shape)
UserSpecialShape(st, shape) ==
    IF Failed(shape) THEN R(st.obj, shape.err, st.log \o shape.log)
    ELSE R([st.obj EXCEPT !.shapes = Append(@, shape.obj)], NoErr, st.log \o shape.log)

\* (a variant that passes over a child it has no branch for)
UserSpecialBody_Lenient(st, shape_node) ==
    IF shape_node.tag \in UserSpecialTags THEN UserSpecialShape(st, LoadShape(shape_node))
    ELSE st

UserSpecialBody(st, shape_node) ==
    IF shape_node.tag \in UserSpecialTags THEN UserSpecialShape(st, LoadShape(shape_node))
    ELSE R(st.obj, Err("ValueError", shape_node.tag), st.log)

RECURSIVE UserSpecialLoopFrom(_, _, _)
UserSpecialLoopFrom(st, kids, i) ==
    IF i > Len(kids) \/ Failed(st) THEN st
    ELSE CHOOSE r \in {UserSpecialLoopFrom(s2, kids, i + 1) :
                          s2 \in {UserSpecialBody(st, kids[i])}} : TRUE

IPC2581_UserSpecial_load(node) ==
    IF node.tag # "UserSpecial"
    THEN R([kind |-> "UserSpecial", shapes |-> <<>>], Err("ValueError", node.tag), <<>>)
    ELSE UserSpecialLoopFrom(R([kind |-> "UserSpecial", shapes |-> <<>>], NoErr, <<>>),
                             node.kids, 1)

(***************************************************************************)
(* IPC2581_Package: Marking, Pin, and the sections of parse_Package        *)
(***************************************************************************)
\* if poly_node is not None: self.polyline = IPC2581_Polyline(); ...load(poly_node)
MarkingPolyline(poly_node) ==
    IF IsNone(poly_node) THEN R(NoShape, NoErr, <<>>) ELSE IPC2581_Polyline_load(poly_node)

\* if contour_node is not None: self.contour = IPC2581_Contour(); ...load(contour_node)
MarkingContour(contour_node) ==
    IF IsNone(contour_node) THEN R(NoShape, NoErr, <<>>)
    ELSE IPC2581_Contour_load(contour_node)

MarkingOf(a, loc, polyline, contour) ==
    R([usage |-> a["markingUsage"], loc |-> loc.obj,
       polyline |-> polyline.obj,
       contour |-> IF Failed(polyline) THEN NoShape ELSE contour.obj],
      FirstErr(<<polyline, contour>>),
      loc.log \o polyline.log \o (IF Failed(polyline) THEN <<>> ELSE contour.log))

IPC2581_Marking_load(marking_node) ==
    IF marking_node.tag # "Marking"
    THEN R([usage |-> ""], Err("ValueError", marking_node.tag), <<>>)
    ELSE IF "markingUsage" \notin DOMAIN marking_node.attrib
    THEN R([usage |-> ""], Err("KeyError", "markingUsage"), <<>>)
    ELSE MarkingOf(marking_node.attrib, LoadLocation(marking_node),
                   MarkingPolyline(find(marking_node, "Polyline")),
                   MarkingContour(find(marking_node, "Contour")))

PinKeys == <<"number", "type", "electricalType">>

PinOf(a, loc, spr) ==
    R([number |-> a["number"], type |-> a["type"],
       electricalType |-> a["electricalType"], loc |-> loc.obj,
       std_prim_ref |-> spr.obj],
      spr.err, loc.log)

IPC2581_Pin_load(pin_node) ==
    IF pin_node.tag # "Pin"
    THEN R([number |-> ""], Err("ValueError", pin_node.tag), <<>>)
    ELSE IF MissingKey(pin_node.attrib, PinKeys) # NoErr
    THEN R([number |-> ""], MissingKey(pin_node.attrib, PinKeys), <<>>)
    ELSE PinOf(pin_node.attrib, LoadLocation(pin_node), LoadStandardPrimitiveRef(pin_node))

\* IPC2581_Package(root, name)
NewPackage(name) ==
    [name |-> name, type |-> "", pinOne |-> "", pinOneOrientation |-> "",
     height |-> FloatV(0, 0),
     outline |-> NoShape, outline_lineWidth |-> FloatV(0, 0), outline_lineEnd |-> "",
     PickupPoint |-> <<FloatV(0, 0), FloatV(0, 0)>>,
     silkscreen_markings |-> <<>>,
     asm_dwg_outline |-> NoShape, asm_dwg_lineEnd |-> "",
     asm_dwg_lineWidth |-> FloatV(0, 0), asm_dwg_markings |-> <<>>,
     pins |-> <<>>, land_pads |-> <<>>]

OutlineTags == {"Circle", "RectCenter", "Oval", "Arc", "Contour", "Polygon", "Polyline"}

\* self.outline_lineEnd = ...attrib['lineEnd']; self.outline_lineWidth = read_float(...)
OutlineLineDesc(st, a, lw) ==
    IF "lineEnd" \notin DOMAIN a THEN R(st.obj, Err("KeyError", "lineEnd"), st.log)
    ELSE R([st.obj EXCEPT !.outline_lineEnd = a["lineEnd"],
                          !.outline_lineWidth = lw.val],
           NoErr, st.log \o WarnOf(lw))

\* shape.load(shape_node); self.outline = shape
OutlineShape(st, shape) ==
    IF Failed(shape) THEN R(st.obj, shape.err, st.log \o shape.log)
    ELSE R([st.obj EXCEPT !.outline = shape.obj], NoErr, st.log \o shape.log)

OutlineBody(st, shape_node) ==
    IF shape_node.tag = "LineDesc"
    THEN OutlineLineDesc(st, shape_node.attrib, read_float(shape_node.attrib, "lineWidth"))
    ELSE IF shape_node.tag \in OutlineTags
    THEN OutlineShape(st, LoadShape(shape_node))
    ELSE R(st.obj, Err("ValueError", shape_node.tag), st.log)

RECURSIVE OutlineLoopFrom(_, _, _)
OutlineLoopFrom(st, kids, i) ==
    IF i > Len(kids) \/ Failed(st) THEN st
    ELSE CHOOSE r \in {OutlineLoopFrom(s2, kids, i + 1) :
                          s2 \in {OutlineBody(st, kids[i])}} : TRUE

parse_Outline(st, outline_node) ==
    IF outline_node.tag # "Outline"
    THEN R(st.obj, Err("ValueError", outline_node.tag), st.log)
    ELSE OutlineLoopFrom(st, outline_node.kids, 1)

\* marking.load(mn); self.<list>.append(marking)
MarkingBody(st, marking, list) ==
    IF Failed(marking) THEN R(st.obj, marking.err, st.log \o marking.log)
    ELSE R([st.obj EXCEPT ![list] = Append(@, marking.obj)], NoErr,
           st.log \o marking.log)

RECURSIVE MarkingLoopFrom(_, _, _, _)
MarkingLoopFrom(st, marking_nodes, i, list) ==
    IF i > Len(marking_nodes) \/ Failed(st) THEN st
    ELSE CHOOSE r \in {MarkingLoopFrom(s2, marking_nodes, i + 1, list) :
                          s2 \in {MarkingBody(st, IPC2581_Marking_load(marking_nodes[i]),
                                              list)}} : TRUE

parse_SilkScreen(st, silkscreen_node) ==
    IF silkscreen_node.tag # "SilkScreen"
    THEN R(st.obj, Err("ValueError", silkscreen_node.tag), st.log)
    ELSE MarkingLoopFrom(st, findall(silkscreen_node, "Marking"), 1,
                         "silkscreen_markings")

AsmDwgLineDesc(st, a, lw) ==
    IF "lineEnd" \notin DOMAIN a THEN R(st.obj, Err("KeyError", "lineEnd"), st.log)
    ELSE R([st.obj EXCEPT !.asm_dwg_lineEnd = a["lineEnd"],
                          !.asm_dwg_lineWidth = lw.val],
           NoErr, st.log \o WarnOf(lw))

\* shape.load(shape_node); self.asm_dwg_outline = shape
AsmDwgShape(st, shape) ==
    IF Failed(shape) THEN R(st.obj, shape.err, st.log \o shape.log)
    ELSE R([st.obj EXCEPT !.asm_dwg_outline = shape.obj], NoErr, st.log \o shape.log)

AsmDwgBody(st, shape_node) ==
    IF shape_node.tag = "LineDesc"
    THEN AsmDwgLineDesc(st, shape_node.attrib, read_float(shape_node.attrib, "lineWidth"))
    ELSE IF shape_node.tag \in OutlineTags
    THEN AsmDwgShape(st, LoadShape(shape_node))
    ELSE R(st.obj, Err("ValueError", shape_node.tag), st.log)

RECURSIVE AsmDwgLoopFrom(_, _, _)
AsmDwgLoopFrom(st, kids, i) ==
    IF i > Len(kids) \/ Failed(st) THEN st
    ELSE CHOOSE r \in {AsmDwgLoopFrom(s2, kids, i + 1) :
                          s2 \in {AsmDwgBody(st, kids[i])}} : TRUE

\* outline_node = asm_dwg_node.find('Outline'); outline_node.tag is read at
\* once: AttributeError when there is no Outline
AsmDwgOutline(st, outline_node) ==
    IF IsNone(outline_node) THEN R(st.obj, Err("AttributeError", "tag"), st.log)
    ELSE AsmDwgLoopFrom(st, outline_node.kids, 1)

parse_AssemblyDrawing(st, asm_dwg_node) ==
    IF asm_dwg_node.tag # "AssemblyDrawing"
    THEN R(st.obj, Err("ValueError", asm_dwg_node.tag), st.log)
    ELSE MarkingLoopFrom(AsmDwgOutline(st, find(asm_dwg_node, "Outline")),
                         findall(asm_dwg_node, "Marking"), 1, "asm_dwg_markings")

PackageKeys == <<"type", "pinOne", "pinOneOrientation">>

PackageFields(st, a, height) ==
    IF MissingKey(a, PackageKeys) # NoErr THEN R(st.obj, MissingKey(a, PackageKeys), st.log)
    ELSE R([st.obj EXCEPT !.type = a["type"], !.pinOne = a["pinOne"],
                          !.pinOneOrientation = a["pinOneOrientation"],
                          !.height = height.val],
           NoErr, st.log \o WarnOf(height))

\* (a variant for which a Package without Outline is an error)
PackageOutline_Strict(st, outline_node) ==
    IF Failed(st) THEN st
    ELSE IF IsNone(outline_node) THEN R(st.obj, Err("ValueError", "Outline"), st.log)
    ELSE parse_Outline(st, outline_node)

PackageOutline(st, outline_node) ==
    IF Failed(st) THEN st
    ELSE IF IsNone(outline_node)
    THEN R(st.obj, NoErr, Append(st.log, Warning("no Outline", st.obj.name)))
    ELSE parse_Outline(st, outline_node)

\* x = read_float(pickup_node.attrib,'x'); y = read_float(pickup_node.attrib,'x')
PackagePickupPoint(st, pickup_node, x, y) ==
    IF Failed(st) \/ IsNone(pickup_node) THEN st
    ELSE R([st.obj EXCEPT !.PickupPoint = <<x.val, y.val>>], NoErr,
           st.log \o WarnOf(x) \o WarnOf(y))

PackageSilkScreen(st, ss_node) ==
    IF Failed(st) THEN st
    ELSE IF IsNone(ss_node)
    THEN R(st.obj, NoErr, Append(st.log, Warning("no SilkScreen", st.obj.name)))
    ELSE parse_SilkScreen(st, ss_node)

PackageAssemblyDrawing(st, asm_dwg_node) ==
    IF Failed(st) THEN st
    ELSE IF IsNone(asm_dwg_node)
    THEN R(st.obj, NoErr, Append(st.log, Warning("no AssemblyDrawing", st.obj.name)))
    ELSE parse_AssemblyDrawing(st, asm_dwg_node)

\* pin.load(pin_node); self.pins.append(pin)   and the same for land_pads
AppendLoaded(st, item, list) ==
    IF Failed(item) THEN R(st.obj, item.err, st.log \o item.log)
    ELSE R([st.obj EXCEPT ![list] = Append(@, item.obj)], NoErr, st.log \o item.log)

RECURSIVE PinLoopFrom(_, _, _)
PinLoopFrom(st, pin_nodes, i) ==
    IF i > Len(pin_nodes) \/ Failed(st) THEN st
    ELSE CHOOSE r \in {PinLoopFrom(s2, pin_nodes, i + 1) :
                          s2 \in {AppendLoaded(st, IPC2581_Pin_load(pin_nodes[i]),
                                               "pins")}} : TRUE

RECURSIVE LandPadLoopFrom(_, _, _)
LandPadLoopFrom(st, pad_nodes, i) ==
    IF i > Len(pad_nodes) \/ Failed(st) THEN st
    ELSE CHOOSE r \in {LandPadLoopFrom(s2, pad_nodes, i + 1) :
                          s2 \in {AppendLoaded(st, IPC2581_Pad_load(pad_nodes[i]),
                                               "land_pads")}} : TRUE

PackageLandPattern(st, land_node) ==
    IF Failed(st) THEN st
    ELSE IF IsNone(land_node)
    THEN R(st.obj, NoErr, Append(st.log, Warning("no LandPattern", st.obj.name)))
    ELSE LandPadLoopFrom(st, findall(land_node, "Pad"), 1)

PackageSections(st, pkg_node) ==
    PackageLandPattern(
        PinLoopFrom(
            PackageAssemblyDrawing(
                PackageSilkScreen(
                    PackagePickupPoint(
                        PackageOutline(st, find(pkg_node, "Outline")),
                        find(pkg_node, "PickupPoint"),
                        read_float(find(pkg_node, "PickupPoint").attrib, "x"),
                        read_float(find(pkg_node, "PickupPoint").attrib, "x")),
                    find(pkg_node, "SilkScreen")),
                find(pkg_node, "AssemblyDrawing")),
            findall(pkg_node, "Pin"), 1),
        find(pkg_node, "LandPattern"))

PackageOrMissing(self, pkg_node) ==
    IF IsNone(pkg_node)
    THEN R(self, NoErr, <<Warning("no Package", self.name)>>)
    ELSE PackageSections(PackageFields(R(self, NoErr, <<>>), pkg_node.attrib,
                                       read_float(pkg_node.attrib, "height")),
                         pkg_node)

parse_Package(self, root) ==
    PackageOrMissing(self, find_where(root, <<"Ecad", "CadData", "Step", "Package">>,
                                      "name", self.name))

(***************************************************************************)
(* IPC2581_Bom and IPC2581_BomItem                                         *)
(***************************************************************************)
BomItemKeys == <<"category", "OEMDesignNumberRef">>

AttribsOf(nodes) == [i \in 1..Len(nodes) |-> nodes[i].attrib]

\* per Characteristics node: its category ('' without one), its Textual attribs
CategoryOf(cnode) ==
    IF "category" \in DOMAIN cnode.attrib THEN cnode.attrib["category"] ELSE ""

BomItemOf(bomitem_node, quantity, pin_count) ==
    IF IsRaise(quantity.val) THEN R([quantity |-> None], Err(quantity.val.t, "quantity"), <<>>)
    ELSE IF IsRaise(pin_count.val)
    THEN R([quantity |-> None], Err(pin_count.val.t, "pinCount"), WarnOf(quantity))
    ELSE IF MissingKey(bomitem_node.attrib, BomItemKeys) # NoErr
    THEN R([quantity |-> None], MissingKey(bomitem_node.attrib, BomItemKeys),
           WarnOf(quantity) \o WarnOf(pin_count))
    ELSE R([quantity |-> quantity.val, pin_count |-> pin_count.val,
            category |-> bomitem_node.attrib["category"],
            OEM_design_number_ref |-> bomitem_node.attrib["OEMDesignNumberRef"],
            reference_designators |-> AttribsOf(findall(bomitem_node, "RefDes")),
            characteristics_categories |->
                [i \in 1..Len(findall(bomitem_node, "Characteristics")) |->
                    CategoryOf(findall(bomitem_node, "Characteristics")[i])],
            characteristics |->
                [i \in 1..Len(findall(bomitem_node, "Characteristics")) |->
                    AttribsOf(findall(findall(bomitem_node, "Characteristics")[i],
                                      "Textual"))]],
           NoErr, WarnOf(quantity) \o WarnOf(pin_count))

IPC2581_BomItem_load(bomitem_node) ==
    IF bomitem_node.tag # "BomItem"
    THEN R([quantity |-> None], Err("ValueError", bomitem_node.tag), <<>>)
    ELSE BomItemOf(bomitem_node, read_int(bomitem_node.attrib, "quantity"),
                   read_int(bomitem_node.attrib, "pinCount"))

BomHeaderKeys == <<"assembly", "revision">>

\* if bhdr_node is not None: assembly, revision, and the StepRef's name
BomHeaderOf(st, bhdr_node, stepref_node) ==
    IF IsNone(bhdr_node) THEN st
    ELSE IF MissingKey(bhdr_node.attrib, BomHeaderKeys) # NoErr
    THEN R(st.obj, MissingKey(bhdr_node.attrib, BomHeaderKeys), st.log)
    ELSE IF ~IsNone(stepref_node) /\ "name" \notin DOMAIN stepref_node.attrib
    THEN R(st.obj, Err("KeyError", "name"), st.log)
    ELSE R([st.obj EXCEPT !.assembly_name = bhdr_node.attrib["assembly"],
                          !.revision = bhdr_node.attrib["revision"],
                          !.pcb_reference = IF IsNone(stepref_node) THEN @
                                            ELSE stepref_node.attrib["name"]],
           NoErr, st.log)

\* bomitem.load(binode); self.bom_items.append(bomitem)
BomItemBody(st, bomitem) ==
    IF Failed(bomitem) THEN R(st.obj, bomitem.err, st.log \o bomitem.log)
    ELSE R([st.obj EXCEPT !.bom_items = Append(@, bomitem.obj)], NoErr,
           st.log \o bomitem.log)

RECURSIVE BomItemLoopFrom(_, _, _)
BomItemLoopFrom(st, bomitem_nodes, i) ==
    IF i > Len(bomitem_nodes) \/ Failed(st) THEN st
    ELSE CHOOSE r \in {BomItemLoopFrom(s2, bomitem_nodes, i + 1) :
                          s2 \in {BomItemBody(st, IPC2581_BomItem_load(bomitem_nodes[i]))}} :
                TRUE

\* IPC2581_Bom()
NewBom ==
    [name |-> "", assembly_name |-> "", revision |-> "", pcb_reference |-> "",
     bom_items |-> <<>>, loaded |-> TRUE]

IPC2581_Bom_load(bomnode) ==
    IF bomnode.tag # "Bom" THEN R(NewBom, Err("ValueError", bomnode.tag), <<>>)
    ELSE IF "name" \notin DOMAIN bomnode.attrib
    THEN R(NewBom, Err("KeyError", "name"), <<>>)
    ELSE BomItemLoopFrom(
             BomHeaderOf(R([NewBom EXCEPT !.name = bomnode.attrib["name"]], NoErr, <<>>),
                         find(bomnode, "BomHeader"),
                         find(find(bomnode, "BomHeader"), "StepRef")),
             findall(bomnode, "BomItem"), 1)

(***************************************************************************)
(* PCBAssembly                                                             *)
(***************************************************************************)

NoLayers == [n \in {} |-> NewLayer("")]

NoPackages == [n \in {} |-> NewPackage("")]

\* a dict with no key, and d[k] = v
EmptyDict == [k \in {} |-> None]

\* (a variant that keeps what a key already holds)
Put_KeepFirst(d, k, v) == [n \in DOMAIN d \cup {k} |-> IF n \in DOMAIN d THEN d[n] ELSE v]

Put(d, k, v) == [n \in DOMAIN d \cup {k} |-> IF n = k THEN v ELSE d[n]]

\* self.Bom = None
NoBom ==
    [name |-> "", assembly_name |-> "", revision |-> "", pcb_reference |-> "",
     bom_items |-> <<>>, loaded |-> FALSE]

\* the fields PCBAssembly.__init__ assigns before it starts parsing
NewPCBAssembly ==
    [function_mode |-> "", function_mode_level |-> IntV(0 - 1),
     step_ref |-> "", bom_ref |-> "", layer_refs |-> <<>>,
     color_dictionary |-> EmptyDict,
     line_desc_units |-> "", line_desc_dictionary |-> EmptyDict,
     fill_desc_units |-> "", fill_desc_dictionary |-> EmptyDict,
     standard_dict_units |-> "", standard_dict |-> EmptyDict,
     user_dict_units |-> "", user_dict |-> EmptyDict,
     Role |-> NoAttrib, Enterprise |-> NoAttrib, Person |-> NoAttrib,
     Bom |-> NoBom,
     Profile |-> NoShape,
     Datum |-> <<FloatV(0, 0), FloatV(0, 0)>>, Layers |-> NoLayers,
     Packages |-> NoPackages]

\* if 'mode' in fm_node.attrib: ...; if 'level' in fm_node.attrib: read_int(...)
FunctionModeOf(st, fm_node, level) ==
    IF IsNone(fm_node) THEN st
    ELSE IF IsRaise(level.val) THEN R(st.obj, Err(level.val.t, "level"), st.log)
    ELSE R([st.obj EXCEPT
               !.function_mode = IF "mode" \in DOMAIN fm_node.attrib
                                 THEN fm_node.attrib["mode"] ELSE @,
               !.function_mode_level = IF "level" \in DOMAIN fm_node.attrib
                                       THEN level.val ELSE @],
           NoErr, st.log \o WarnOf(level))

\* if node is not None: self.<field> = node.attrib['name']
NameRefOf(st, node, field) ==
    IF Failed(st) \/ IsNone(node) THEN st
    ELSE IF "name" \notin DOMAIN node.attrib
    THEN R(st.obj, Err("KeyError", "name"), st.log)
    ELSE R([st.obj EXCEPT ![field] = node.attrib["name"]], NoErr, st.log)

\* for layer in layer_ref_nodes: self.layer_refs.append(layer.attrib['name'])
LayerRefsOf(st, nodes) ==
    IF Failed(st) THEN st
    ELSE IF \E i \in 1..Len(nodes) : "name" \notin DOMAIN nodes[i].attrib
    THEN R(st.obj, Err("KeyError", "name"), st.log)
    ELSE R([st.obj EXCEPT
               !.layer_refs = @ \o [i \in 1..Len(nodes) |-> nodes[i].attrib["name"]]],
           NoErr, st.log)

\* int(attrib[key]): KeyError when the key is missing
IntAttr(attrib, key) ==
    IF key \notin DOMAIN attrib THEN Raise("KeyError") ELSE PyInt(attrib[key])

\* color_rgb = tuple(int(...) for r, g, b); self.color_dictionary[color_id] = color_rgb
ColorOf(st, color_id, color_rgb) ==
    IF FirstRaise(color_rgb) # "" THEN R(st.obj, Err(FirstRaise(color_rgb), "Color"), st.log)
    ELSE R([st.obj EXCEPT !.color_dictionary = Put(@, color_id, color_rgb)],
           NoErr, st.log)

ColorEntry(st, ecn, color_node) ==
    IF "id" \notin DOMAIN ecn.attrib THEN R(st.obj, Err("KeyError", "id"), st.log)
    ELSE IF IsNone(color_node) THEN st
    ELSE ColorOf(st, ecn.attrib["id"],
                 <<IntAttr(color_node.attrib, "r"), IntAttr(color_node.attrib, "g"),
                   IntAttr(color_node.attrib, "b")>>)

RECURSIVE ColorLoopFrom(_, _, _)
ColorLoopFrom(st, entry_color_nodes, i) ==
    IF i > Len(entry_color_nodes) \/ Failed(st) THEN st
    ELSE CHOOSE r \in {ColorLoopFrom(s2, entry_color_nodes, i + 1) :
                          s2 \in {ColorEntry(st, entry_color_nodes[i],
                                             find(entry_color_nodes[i], "Color"))}} : TRUE

parse_color_dict(st, root) ==
    ColorLoopFrom(st, findall_path(root, <<"Content", "DictionaryColor", "EntryColor">>), 1)

\* if node is not None and 'units' in node.attrib: self.<field> = node.attrib['units']
UnitsOf(st, node, field) ==
    IF Failed(st) \/ IsNone(node) \/ "units" \notin DOMAIN node.attrib THEN st
    ELSE R([st.obj EXCEPT ![field] = node.attrib["units"]], NoErr, st.log)

\* linedesc_attrib = {'lineEnd': ..., 'lineWidth': float(...)}
LineDescEntryOf(st, entry_line_desc_id, a, lw) ==
    IF "lineEnd" \notin DOMAIN a THEN R(st.obj, Err("KeyError", "lineEnd"), st.log)
    ELSE IF IsRaise(lw) THEN R(st.obj, Err(lw.t, "lineWidth"), st.log)
    ELSE R([st.obj EXCEPT !.line_desc_dictionary =
               Put(@, entry_line_desc_id, [lineEnd |-> a["lineEnd"], lineWidth |-> lw])],
           NoErr, st.log)

LineDescEntry(st, entry, linedesc) ==
    IF "id" \notin DOMAIN entry.attrib THEN R(st.obj, Err("KeyError", "id"), st.log)
    ELSE IF IsNone(linedesc) THEN st
    ELSE LineDescEntryOf(st, entry.attrib["id"], linedesc.attrib,
                         FloatAttr(linedesc.attrib, "lineWidth"))

RECURSIVE LineDescLoopFrom(_, _, _)
LineDescLoopFrom(st, entry_line_desc_nodes, i) ==
    IF i > Len(entry_line_desc_nodes) \/ Failed(st) THEN st
    ELSE CHOOSE r \in {LineDescLoopFrom(s2, entry_line_desc_nodes, i + 1) :
                          s2 \in {LineDescEntry(st, entry_line_desc_nodes[i],
                                                find(entry_line_desc_nodes[i],
                                                     "LineDesc"))}} : TRUE

parse_line_desc_dict(st, root) ==
    LineDescLoopFrom(
        UnitsOf(st, find_path(root, <<"Content", "DictionaryLineDesc">>),
                "line_desc_units"),
        findall_path(root, <<"Content", "DictionaryLineDesc", "EntryLineDesc">>), 1)

\* fill_property = fill.find('FillDesc').attrib['fillProperty']
FillDescEntry(st, fill, filldesc) ==
    IF "id" \notin DOMAIN fill.attrib THEN R(st.obj, Err("KeyError", "id"), st.log)
    ELSE IF IsNone(filldesc) THEN R(st.obj, Err("AttributeError", "attrib"), st.log)
    ELSE IF "fillProperty" \notin DOMAIN filldesc.attrib
    THEN R(st.obj, Err("KeyError", "fillProperty"), st.log)
    ELSE R([st.obj EXCEPT !.fill_desc_dictionary =
               Put(@, fill.attrib["id"], filldesc.attrib["fillProperty"])],
           NoErr, st.log)

RECURSIVE FillDescLoopFrom(_, _, _)
FillDescLoopFrom(st, fill_desc_nodes, i) ==
    IF i > Len(fill_desc_nodes) \/ Failed(st) THEN st
    ELSE CHOOSE r \in {FillDescLoopFrom(s2, fill_desc_nodes, i + 1) :
                          s2 \in {FillDescEntry(st, fill_desc_nodes[i],
                                                find(fill_desc_nodes[i], "FillDesc"))}} : TRUE

parse_fill_desc_dict(st, root) ==
    FillDescLoopFrom(
        UnitsOf(st, find_path(root, <<"Content", "DictionaryFillDesc">>),
                "fill_desc_units"),
        findall_path(root, <<"Content", "DictionaryFillDesc", "EntryFillDesc">>), 1)

StandardTags == {"Circle", "RectCenter", "Oval", "Arc", "Contour", "Polygon", "Polyline"}

\* shape.load(shape_node); self.standard_dict[es_id] = shape
StandardShape(st, es_id, shape) ==
    IF Failed(shape) THEN R(st.obj, shape.err, st.log \o shape.log)
    ELSE R([st.obj EXCEPT !.standard_dict = Put(@, es_id, shape.obj)],
           NoErr, st.log \o shape.log)

StandardBody(st, es_id, shape_node) ==
    IF shape_node.tag \in StandardTags THEN StandardShape(st, es_id, LoadShape(shape_node))
    ELSE R(st.obj, Err("ValueError", shape_node.tag), st.log)

RECURSIVE StandardShapeLoopFrom(_, _, _, _)
StandardShapeLoopFrom(st, es_id, kids, i) ==
    IF i > Len(kids) \/ Failed(st) THEN st
    ELSE CHOOSE r \in {StandardShapeLoopFrom(s2, es_id, kids, i + 1) :
                          s2 \in {StandardBody(st, es_id, kids[i])}} : TRUE

StandardEntry(st, es_node) ==
    IF "id" \notin DOMAIN es_node.attrib THEN R(st.obj, Err("KeyError", "id"), st.log)
    ELSE StandardShapeLoopFrom(st, es_node.attrib["id"], es_node.kids, 1)

RECURSIVE StandardLoopFrom(_, _, _)
StandardLoopFrom(st, entry_standard_nodes, i) ==
    IF i > Len(entry_standard_nodes) \/ Failed(st) THEN st
    ELSE CHOOSE r \in {StandardLoopFrom(s2, entry_standard_nodes, i + 1) :
                          s2 \in {StandardEntry(st, entry_standard_nodes[i])}} : TRUE

parse_standard_dict(st, root) ==
    StandardLoopFrom(
        UnitsOf(st, find_path(root, <<"Content", "DictionaryStandard">>),
                "standard_dict_units"),
        findall_path(root, <<"Content", "DictionaryStandard", "EntryStandard">>), 1)

\* us_obj.load(us_node); self.user_dict[eu_id] = us_obj
UserSpecialOf(st, eu_id, us_obj) ==
    IF Failed(us_obj) THEN R(st.obj, us_obj.err, st.log \o us_obj.log)
    ELSE R([st.obj EXCEPT !.user_dict = Put(@, eu_id, us_obj.obj)],
           NoErr, st.log \o us_obj.log)

UserEntry(st, eu_node, us_node) ==
    IF "id" \notin DOMAIN eu_node.attrib THEN R(st.obj, Err("KeyError", "id"), st.log)
    ELSE IF IsNone(us_node) THEN st
    ELSE UserSpecialOf(st, eu_node.attrib["id"], IPC2581_UserSpecial_load(us_node))

RECURSIVE UserLoopFrom(_, _, _)
UserLoopFrom(st, entry_user_nodes, i) ==
    IF i > Len(entry_user_nodes) \/ Failed(st) THEN st
    ELSE CHOOSE r \in {UserLoopFrom(s2, entry_user_nodes, i + 1) :
                          s2 \in {UserEntry(st, entry_user_nodes[i],
                                            find(entry_user_nodes[i], "UserSpecial"))}} : TRUE

\* the units are read from Content/DictionaryStandard
parse_user_dict(st, root) ==
    UserLoopFrom(
        UnitsOf(st, find_path(root, <<"Content", "DictionaryStandard">>),
                "user_dict_units"),
        findall_path(root, <<"Content", "DictionaryUser", "EntryUser">>), 1)

parse_Dictionaries(st, root) ==
    parse_user_dict(
        parse_standard_dict(
            parse_fill_desc_dict(
                parse_line_desc_dict(
                    parse_color_dict(st, root), root), root), root), root)

parse_Content(self, root) ==
    parse_Dictionaries(
        LayerRefsOf(
            NameRefOf(
                NameRefOf(
                    FunctionModeOf(R(self, NoErr, <<>>),
                                   find_path(root, <<"Content", "FunctionMode">>),
                                   read_int(find_path(root, <<"Content", "FunctionMode">>).attrib,
                                            "level")),
                    find_path(root, <<"Content", "StepRef">>), "step_ref"),
                find_path(root, <<"Content", "BomRef">>), "bom_ref"),
            findall_path(root, <<"Content", "LayerRef">>)),
        root)

\* if node is not None: self.<field> = node.attrib
HeaderAttrib(self, node, field) ==
    IF IsNone(node) THEN self ELSE [self EXCEPT ![field] = node.attrib]

parse_LogisticHeader(self, root) ==
    R(HeaderAttrib(
          HeaderAttrib(
              HeaderAttrib(self, find_path(root, <<"LogisticHeader", "Role">>), "Role"),
              find_path(root, <<"LogisticHeader", "Enterprise">>), "Enterprise"),
          find_path(root, <<"LogisticHeader", "Person">>), "Person"),
      NoErr, <<>>)

parse_HistoryRecord(self) == R(self, NoErr, <<>>)

\* self.Bom = IPC2581_Bom(); self.Bom.load(bomnode)
BomOrMissing(self, bomnode, bom) ==
    IF IsNone(bomnode) THEN R(self, NoErr, <<>>)
    ELSE IF Failed(bom) THEN R(self, bom.err, bom.log)
    ELSE R([self EXCEPT !.Bom = bom.obj], NoErr, bom.log)

\* (a variant in which a second call adds its items to those of the first)
parse_Bom_Appending(self, root) ==
    LET r == BomOrMissing(self, find(root, "Bom"), IPC2581_Bom_load(find(root, "Bom")))
    IN  IF Failed(r) \/ IsNone(find(root, "Bom")) THEN r
        ELSE R([r.obj EXCEPT !.Bom.bom_items = self.Bom.bom_items \o @], r.err, r.log)

parse_Bom(self, root) ==
    BomOrMissing(self, find(root, "Bom"), IPC2581_Bom_load(find(root, "Bom")))

\* self.Layers[layer_name] = IPC2581_Layer(self.root, layer_name)
StoreLayer(self, layer_name, layer) ==
    IF Failed(layer) THEN R(self, layer.err, layer.log)
    ELSE R([self EXCEPT !.Layers =
               [n \in DOMAIN self.Layers \cup {layer_name} |->
                   IF n = layer_name THEN layer.obj ELSE self.Layers[n]]],
           NoErr, layer.log)

ProfileTags == {"Circle", "RectCenter", "Oval", "Arc", "Contour", "Polygon", "Polyline"}

\* (a variant that also enters the shape in the standard dictionary)
ProfileShape_Registered(st, shape) ==
    IF Failed(shape) THEN R(st.obj, shape.err, st.log \o shape.log)
    ELSE R([st.obj EXCEPT !.Profile = shape.obj,
                          !.standard_dict = Put(@, "Profile", shape.obj)],
           NoErr, st.log \o shape.log)

\* shape.load(shape_node); self.Profile = shape
ProfileShape(st, shape) ==
    IF Failed(shape) THEN R(st.obj, shape.err, st.log \o shape.log)
    ELSE R([st.obj EXCEPT !.Profile = shape.obj], NoErr, st.log \o shape.log)

ProfileBody(st, shape_node) ==
    IF shape_node.tag \in ProfileTags THEN ProfileShape(st, LoadShape(shape_node))
    ELSE R(st.obj, Err("ValueError", shape_node.tag), st.log)

RECURSIVE ProfileLoopFrom(_, _, _)
ProfileLoopFrom(st, kids, i) ==
    IF i > Len(kids) \/ Failed(st) THEN st
    ELSE CHOOSE r \in {ProfileLoopFrom(s2, kids, i + 1) :
                          s2 \in {ProfileBody(st, kids[i])}} : TRUE

\* the global name root is looked up: NameError when the module has none
IsUnbound(global_root) == global_root.tag = "<unbound>"

ProfileOrMissing(self, prof_node) ==
    IF IsNone(prof_node) THEN R(self, NoErr, <<>>)
    ELSE ProfileLoopFrom(R(self, NoErr, <<>>), prof_node.kids, 1)

parse_Profile(self, global_root) ==
    IF IsUnbound(global_root) THEN R(self, Err("NameError", "root"), <<>>)
    ELSE ProfileOrMissing(self, find_path(global_root,
                                          <<"Ecad", "CadData", "Step", "Profile">>))

DatumOf(self, datum_node, x, y) ==
    IF IsNone(datum_node) THEN R(self, NoErr, <<>>)
    ELSE R([self EXCEPT !.Datum = <<x.val, y.val>>], NoErr, WarnOf(x) \o WarnOf(y))

DatumOrMissing(self, datum_node) ==
    DatumOf(self, datum_node, read_float(datum_node.attrib, "x"),
            read_float(datum_node.attrib, "y"))

parse_Datum(self, global_root) ==
    IF IsUnbound(global_root) THEN R(self, Err("NameError", "root"), <<>>)
    ELSE DatumOrMissing(self, find_path(global_root,
                                        <<"Ecad", "CadData", "Step", "Datum">>))

\* pcbpkg = IPC2581_Package(root, pn); pcbpkg.parse_Package();
\* self.Packages[pn] = pcbpkg      (root is the global name)
PackageBody(st, pn, pcbpkg) ==
    IF Failed(pcbpkg) THEN R(st.obj, pcbpkg.err, st.log \o pcbpkg.log)
    ELSE R([st.obj EXCEPT !.Packages = Put(@, pn, pcbpkg.obj)], NoErr,
           st.log \o pcbpkg.log)

RECURSIVE PackageLoopFrom(_, _, _, _)
PackageLoopFrom(st, package_names, i, global_root) ==
    IF i > Len(package_names) \/ Failed(st) THEN st
    ELSE CHOOSE r \in {PackageLoopFrom(s2, package_names, i + 1, global_root) :
                          s2 \in {PackageBody(st, package_names[i],
                                              parse_Package(NewPackage(package_names[i]),
                                                            global_root))}} : TRUE

\* for pn in package_nodes: package_names.append(pn.attrib['name'])
PackagesOf(self, package_nodes, global_root) ==
    IF \E i \in 1..Len(package_nodes) : "name" \notin DOMAIN package_nodes[i].attrib
    THEN R(self, Err("KeyError", "name"), <<>>)
    ELSE PackageLoopFrom(R(self, NoErr, <<>>),
                         [i \in 1..Len(package_nodes) |-> package_nodes[i].attrib["name"]],
                         1, global_root)

load_Packages(self, global_root) ==
    IF IsUnbound(global_root) THEN R(self, Err("NameError", "root"), <<>>)
    ELSE PackagesOf(self, findall_path(global_root,
                                       <<"Ecad", "CadData", "Step", "Package">>),
                    global_root)

(***************************************************************************)
(* Harness of the Attribute Reader: a mapping and a key, then one call.    *)
(***************************************************************************)
MaxTextLen == 4

Alphabet == {"1", "sup2", ".", "-", "e", "t", "r", "u", "T"}

RECURSIVE TextsUpTo(_)
TextsUpTo(n) ==
    IF n = 0 THEN {<<>>}
    ELSE LET shorter == TextsUpTo(n - 1)
         IN  shorter \cup {Append(s, c) : s \in shorter, c \in Alphabet}

Texts == TextsUpTo(MaxTextLen)

ReaderInit ==
    /\ rd_d \in {NoAttrib} \cup {[k \in {"x"} |-> s] : s \in Texts}
    /\ rd_key \in {"x", "y"}
    /\ rd_fn = ""
    /\ rd_out = Out(None, 0)

CallReadInt ==
    /\ rd_fn = ""
    /\ rd_fn' = "read_int"
    /\ rd_out' = read_int(rd_d, rd_key)
    /\ UNCHANGED <<rd_d, rd_key>>
    /\ UNCHANGED <<chVars, lfVars, bdVars, clVars>>

CallReadFloat ==
    /\ rd_fn = ""
    /\ rd_fn' = "read_float"
    /\ rd_out' = read_float(rd_d, rd_key)
    /\ UNCHANGED <<rd_d, rd_key>>
    /\ UNCHANGED <<chVars, lfVars, bdVars, clVars>>

CallReadBool ==
    /\ rd_fn = ""
    /\ rd_fn' = "read_bool"
    /\ rd_out' = read_bool(rd_d, rd_key)
    /\ UNCHANGED <<rd_d, rd_key>>
    /\ UNCHANGED <<chVars, lfVars, bdVars, clVars>>

ReaderNext == CallReadInt \/ CallReadFloat \/ CallReadBool

\* the harness at rest, for the specifications that do not use it
ReaderIdle ==
    /\ rd_d = NoAttrib
    /\ rd_key = ""
    /\ rd_fn = "idle"
    /\ rd_out = Out(None, 0)

(***************************************************************************)
(* Harness of the point chains: an element is written child by child, then *)
(* handed to the loader of its tag.                                        *)
(***************************************************************************)
MaxPolySteps == 5

MaxRings == 3

T(c) == <<c>>

Pt(tag, x, y) == E(tag, [x |-> x, y |-> y], <<>>)

Digit(i) == T(<<"1", "2", "3", "4", "5", "6", "7", "8", "9">>[i])

ChainKidSamples ==
    { Pt("PolyBegin", T("0"), T("0")),
      Pt("PolyStepSegment", T("1"), T("0")),
      E("PolyStepCurve",
        [x |-> T("2"), y |-> T("0"), centerX |-> <<"1", ".", "5">>,
         centerY |-> T("0"), clockwise |-> "true"], <<>>) }

\* children of a Polygon or Polyline element that is loaded on its own
ChainExtraSamples(tag) ==
    IF tag = "Polyline"
    THEN {Pt("PolyStepSegment", T("x"), T("0")),
          E("LineDesc", [lineEnd |-> "ROUND", lineWidth |-> T("x")], <<>>)}
    ELSE {Pt("PolyStepSegment", T("x"), T("0"))}

\* the Polygon and Cutout children a Contour element starts with
RingSamples ==
    { E("Polygon", NoAttrib, <<>>),
      E("Polygon", NoAttrib, <<E("FillDescRef", [id |-> "F1"], <<>>)>>),
      E("Cutout", NoAttrib, <<>>) }

RECURSIVE SumLenFrom(_, _)
SumLenFrom(nodes, i) ==
    IF i > Len(nodes) THEN 0 ELSE Len(nodes[i].kids) + SumLenFrom(nodes, i + 1)

SumLen(nodes) == SumLenFrom(nodes, 1)

\* the chain children written so far
TotalKids(node) ==
    IF node.tag = "Contour" THEN SumLen(node.kids) ELSE Len(node.kids)

ChainInit ==
    /\ ch_node \in {E("Polygon", NoAttrib, <<>>), E("Polyline", NoAttrib, <<>>),
                    E("Contour", NoAttrib, <<>>)}
    /\ ch_pc = "build"
    /\ ch_out = R([kind |-> ""], NoErr, <<>>)

ChainIdle ==
    /\ ch_node = NoNode
    /\ ch_pc = "idle"
    /\ ch_out = R([kind |-> ""], NoErr, <<>>)

\* a child of a Polygon or Polyline element
AddPolyKid ==
    /\ ch_pc = "build"
    /\ ch_node.tag \in {"Polygon", "Polyline"}
    /\ TotalKids(ch_node) < MaxPolySteps
    /\ \E k \in ChainKidSamples \cup ChainExtraSamples(ch_node.tag) :
          ch_node' = [ch_node EXCEPT !.kids = Append(@, k)]
    /\ UNCHANGED <<ch_pc, ch_out>>
    /\ UNCHANGED <<rdVars, lfVars, bdVars, clVars>>

\* a Polygon or Cutout child of a Contour element
AddRing ==
    /\ ch_pc = "build"
    /\ ch_node.tag = "Contour"
    /\ Len(ch_node.kids) < MaxRings
    /\ TotalKids(ch_node) < MaxPolySteps
    /\ \E ring \in RingSamples :
          ch_node' = [ch_node EXCEPT !.kids = Append(@, ring)]
    /\ UNCHANGED <<ch_pc, ch_out>>
    /\ UNCHANGED <<rdVars, lfVars, bdVars, clVars>>

\* a child of the last Polygon or Cutout of a Contour element
AddRingKid ==
    /\ ch_pc = "build"
    /\ ch_node.tag = "Contour"
    /\ Len(ch_node.kids) > 0
    /\ TotalKids(ch_node) < MaxPolySteps
    /\ \E k \in ChainKidSamples :
          ch_node' = [ch_node EXCEPT !.kids[Len(ch_node.kids)].kids = Append(@, k)]
    /\ UNCHANGED <<ch_pc, ch_out>>
    /\ UNCHANGED <<rdVars, lfVars, bdVars, clVars>>

LoadPolygon ==
    /\ ch_pc = "build"
    /\ ch_node.tag = "Polygon"
    /\ ch_out' = IPC2581_Polygon_load(ch_node)
    /\ ch_pc' = "done"
    /\ UNCHANGED ch_node
    /\ UNCHANGED <<rdVars, lfVars, bdVars, clVars>>

LoadPolyline ==
    /\ ch_pc = "build"
    /\ ch_node.tag = "Polyline"
    /\ ch_out' = IPC2581_Polyline_load(ch_node)
    /\ ch_pc' = "done"
    /\ UNCHANGED ch_node
    /\ UNCHANGED <<rdVars, lfVars, bdVars, clVars>>

LoadContour ==
    /\ ch_pc = "build"
    /\ ch_node.tag = "Contour"
    /\ ch_out' = IPC2581_Contour_load(ch_node)
    /\ ch_pc' = "done"
    /\ UNCHANGED ch_node
    /\ UNCHANGED <<rdVars, lfVars, bdVars, clVars>>

ChainNext ==
    AddPolyKid \/ AddRing \/ AddRingKid \/ LoadPolygon \/ LoadPolyline \/ LoadContour

(***************************************************************************)
(* Harness of parse_LayerFeature: the LayerFeature element of one layer is *)
(* read Set by Set.                                                        *)
(***************************************************************************)
MaxSets == 3

NetNames == {"GND", "VCC"}

Loc(x, y) == Pt("Location", x, y)

CircleFeatures ==
    E("Features", NoAttrib,
      <<Loc(T("1"), T("2")), E("Circle", [diameter |-> <<"0", ".", "5">>], <<>>)>>)

\* the Features children met in documents; the last one holds an element
\* load_feature has no branch for
FeaturesSamples ==
    { CircleFeatures,
      E("Features", NoAttrib,
        <<E("Xform", [rotation |-> <<"9", "0">>], <<>>),
          E("Line", [startX |-> T("0"), startY |-> T("0"),
                     endX |-> T("1"), endY |-> T("0")],
            <<E("LineDesc", [lineEnd |-> "ROUND", lineWidth |-> T("1")], <<>>)>>),
          Loc(T("3"), T("4"))>>),
      E("Features", NoAttrib, <<E("UserPrimitiveRef", [id |-> "U1"], <<>>)>>),
      E("Features", NoAttrib, <<>>),
      E("Features", NoAttrib,
        <<E("UserPrimitiveRef", [id |-> "U2"], <<>>),
          E("StandardPrimitiveRef", [id |-> "S1"], <<>>)>>) }

\* the children of a Set: nothing, or one Features element
GeometryKids == {<<>>} \cup {<<f>> : f \in FeaturesSamples}

PadSample ==
    E("Pad", [padstackDefRef |-> "P1"],
      <<Loc(T("1"), T("1")), E("StandardPrimitiveRef", [id |-> "S9"], <<>>)>>)

Nonstd(name, value) == E("NonstandardAttribute", [name |-> name, value |-> value], <<>>)

\* what a pad or via Set carries: nothing at all, or everything at once
ViaSamples(usage) ==
    { E("Set", [net |-> "GND", padUsage |-> usage], <<>>),
      E("Set", [net |-> "VCC", padUsage |-> usage, geometry |-> "H1",
                plate |-> "true", testPoint |-> "false"],
        <<PadSample, Nonstd("a", "1"), Nonstd("b", "2"), Nonstd("a", "3"),
          CircleFeatures>>) }

SetSamples ==
    {E("Set", [net |-> "GND"], kids) : kids \in GeometryKids}
    \cup {E("Set", [net |-> "VCC"], kids) : kids \in {<<>>, <<CircleFeatures>>}}
    \cup {E("Set", NoAttrib, kids) : kids \in GeometryKids}
    \cup {E("Set", [net |-> "GND", geometry |-> "H1"], kids) :
             kids \in {<<>>, <<CircleFeatures>>}}
    \cup ViaSamples("VIA") \cup ViaSamples("NONE") \cup ViaSamples("TERMINATION")

LayerInit ==
    /\ lf_pc = "find"
    /\ lf_seen = <<>>
    /\ lf_layer = NewLayer("TOP")
    /\ lf_err = NoErr
    /\ lf_log = <<>>

LayerIdle ==
    /\ lf_pc = "idle"
    /\ lf_seen = <<>>
    /\ lf_layer = NewLayer("")
    /\ lf_err = NoErr
    /\ lf_log = <<>>

\* layerfeat_node = self.root.find(...): found, and the loop starts
FindLayerFeature ==
    /\ lf_pc = "find"
    /\ lf_pc' = "sets"
    /\ UNCHANGED <<lf_seen, lf_layer, lf_err, lf_log>>
    /\ UNCHANGED <<rdVars, chVars, bdVars, clVars>>

\* layerfeat_node is None: a warning, and parse_LayerFeature returns
NoLayerFeature ==
    /\ lf_pc = "find"
    /\ lf_pc' = "done"
    /\ lf_log' = Append(lf_log, Warning("no LayerFeature", lf_layer.name))
    /\ UNCHANGED <<lf_seen, lf_layer, lf_err>>
    /\ UNCHANGED <<rdVars, chVars, bdVars, clVars>>

\* the layer and the position after one pass of the loop that gave r
AfterSet(set_node, r) ==
    /\ lf_log' = lf_log \o r.log
    /\ lf_err' = r.err
    /\ lf_seen' = Append(lf_seen, set_node)
    /\ IF Failed(r)
       THEN lf_pc' = "error" /\ UNCHANGED lf_layer
       ELSE lf_pc' = "sets" /\ lf_layer' = r.obj

\* one pass of "for set_node in layerfeat_node.findall('Set')"
NextSet ==
    /\ lf_pc = "sets"
    /\ Len(lf_seen) < MaxSets
    /\ \E set_node \in SetSamples : AfterSet(set_node, ProcessSet(lf_layer, set_node))
    /\ UNCHANGED <<rdVars, chVars, bdVars, clVars>>

\* no Set is left
EndOfSets ==
    /\ lf_pc = "sets"
    /\ lf_pc' = "done"
    /\ UNCHANGED <<lf_seen, lf_layer, lf_err, lf_log>>
    /\ UNCHANGED <<rdVars, chVars, bdVars, clVars>>

Next == FindLayerFeature \/ NoLayerFeature \/ NextSet \/ EndOfSets

(***************************************************************************)
(* Harness of the loaders that are functions of one element: the element   *)
(* is chosen, then the loader is called once.                              *)
(***************************************************************************)
LoaderIdle ==
    /\ cl_fn = "idle"
    /\ cl_self = NoNode
    /\ cl_node = NoNode
    /\ cl_out = R([kind |-> ""], NoErr, <<>>)

\* the loader fn has been called and gave r
Called(fn, r) ==
    /\ cl_fn' = fn
    /\ cl_out' = r
    /\ UNCHANGED <<cl_self, cl_node>>
    /\ UNCHANGED <<rdVars, chVars, lfVars, bdVars>>

\* ---- IPC2581_Transform(...).load(xfrm_node)
XformKeys == {"rotation", "mirror", "xOffset", "yOffset"}

\* the text of an attribute of Xform: one that parses, one that does not
XformText(key, kind) ==
    IF kind = "bad" THEN T("u")
    ELSE IF key = "mirror" THEN <<"T", "r", "u", "e">>
    ELSE IF key = "rotation" THEN <<"4", "5">>
    ELSE <<"-", "1", ".", "5">>

XformAttribs ==
    {[k \in {k2 \in XformKeys : choice[k2] # "absent"} |-> XformText(k, choice[k])] :
        choice \in [XformKeys -> {"absent", "good", "bad"}]}

\* what the constructor was given
TransformSamples ==
    {IPC2581_Transform(rot, mir, xo, yo) :
        rot \in {FloatV(0, 0), FloatV(90, 0)}, mir \in {BoolV(FALSE), BoolV(TRUE)},
        xo \in {FloatV(0, 0), FloatV(25, 0 - 1)}, yo \in {FloatV(0, 0), FloatV(7, 0)}}

XformInit ==
    /\ cl_fn = ""
    /\ cl_self \in TransformSamples
    /\ cl_node \in {E("Xform", a, <<>>) : a \in XformAttribs}
    /\ cl_out = R([kind |-> ""], NoErr, <<>>)

LoadTransform ==
    /\ cl_fn = ""
    /\ Called("IPC2581_Transform.load", IPC2581_Transform_load(cl_self, cl_node))

XformNext == LoadTransform

(***************************************************************************)
(* Harness of the geometry dispatch sites: one container element with a    *)
(* few children, handed to the loader of its site.                         *)
(***************************************************************************)
MaxKids == 3

\* children met under a container: shapes that load, a shape whose text
\* does not convert, a Line without its coordinates, the non-geometry
\* children some sites handle, and two tags no site knows
KidSamples ==
    { E("Circle", [diameter |-> <<"0", ".", "5">>], <<>>),
      E("Oval", [width |-> T("u"), height |-> T("1")], <<>>),
      E("Line", NoAttrib, <<>>),
      Loc(T("1"), T("2")),
      E("LineDesc", [lineEnd |-> "ROUND", lineWidth |-> T("1")], <<>>),
      E("UserPrimitiveRef", [id |-> "U1"], <<>>),
      E("Text", NoAttrib, <<>>),
      E("Hole", [diameter |-> T("1")], <<>>) }

RECURSIVE KidsUpTo(_)
KidsUpTo(n) ==
    IF n = 0 THEN {<<>>}
    ELSE LET shorter == KidsUpTo(n - 1)
         IN  shorter \cup {Append(ks, k) : ks \in shorter, k \in KidSamples}

SiteContainers(kids) ==
    { E("Features", NoAttrib, kids),
      E("EntryStandard", [id |-> "S1"], kids),
      E("UserSpecial", NoAttrib, kids),
      E("Outline", NoAttrib, kids),
      E("AssemblyDrawing", NoAttrib, <<E("Outline", NoAttrib, kids)>>),
      E("Profile", NoAttrib, kids) }

SiteSelf(tag) ==
    CASE tag = "Features" -> LayerNet("VCC")
      [] tag \in {"EntryStandard", "Profile"} -> NewPCBAssembly
      [] tag \in {"Outline", "AssemblyDrawing"} -> NewPackage("SOT23")
      [] OTHER -> NoNode

DispatchInit ==
    /\ cl_fn = ""
    /\ cl_node \in UNION {SiteContainers(kids) : kids \in KidsUpTo(MaxKids)}
    /\ cl_self = SiteSelf(cl_node.tag)
    /\ cl_out = R([kind |-> ""], NoErr, <<>>)

LoadFeatures ==
    /\ cl_fn = "" /\ cl_node.tag = "Features"
    /\ Called("load_feature", load_feature(cl_self, cl_node))

LoadEntryStandard ==
    /\ cl_fn = "" /\ cl_node.tag = "EntryStandard"
    /\ Called("_parse_standard_dict", StandardEntry(R(cl_self, NoErr, <<>>), cl_node))

LoadUserSpecial ==
    /\ cl_fn = "" /\ cl_node.tag = "UserSpecial"
    /\ Called("IPC2581_UserSpecial.load", IPC2581_UserSpecial_load(cl_node))

LoadOutline ==
    /\ cl_fn = "" /\ cl_node.tag = "Outline"
    /\ Called("_parse_Outline", parse_Outline(R(cl_self, NoErr, <<>>), cl_node))

LoadAssemblyDrawing ==
    /\ cl_fn = "" /\ cl_node.tag = "AssemblyDrawing"
    /\ Called("_parse_AssemblyDrawing",
              parse_AssemblyDrawing(R(cl_self, NoErr, <<>>), cl_node))

LoadProfile ==
    /\ cl_fn = "" /\ cl_node.tag = "Profile"
    /\ Called("parse_ECad", ProfileOrMissing(cl_self, cl_node))

DispatchNext ==
    \/ LoadFeatures
    \/ LoadEntryStandard
    \/ LoadUserSpecial
    \/ LoadOutline
    \/ LoadAssemblyDrawing
    \/ LoadProfile

(***************************************************************************)
(* Harness of the dictionaries: a document whose Content holds a few       *)
(* dictionary entries, then parse_Content.                                 *)
(***************************************************************************)
MaxEntries == 3

TableNames ==
    {"color_dictionary", "line_desc_dictionary", "fill_desc_dictionary",
     "standard_dict", "user_dict"}

DictTag(table) ==
    CASE table = "color_dictionary" -> "DictionaryColor"
      [] table = "line_desc_dictionary" -> "DictionaryLineDesc"
      [] table = "fill_desc_dictionary" -> "DictionaryFillDesc"
      [] table = "standard_dict" -> "DictionaryStandard"
      [] table = "user_dict" -> "DictionaryUser"

EntryTag(table) ==
    CASE table = "color_dictionary" -> "EntryColor"
      [] table = "line_desc_dictionary" -> "EntryLineDesc"
      [] table = "fill_desc_dictionary" -> "EntryFillDesc"
      [] table = "standard_dict" -> "EntryStandard"
      [] table = "user_dict" -> "EntryUser"

\* what an entry holds: v = 1 or 2 for two different contents
EntryChild(table, v) ==
    CASE table = "color_dictionary" ->
            E("Color", [r |-> Digit(v), g |-> T("0"), b |-> <<"2", "5", "5">>], <<>>)
      [] table = "line_desc_dictionary" ->
            E("LineDesc", [lineEnd |-> IF v = 1 THEN "ROUND" ELSE "SQUARE",
                           lineWidth |-> <<"0", ".">> \o Digit(v)], <<>>)
      [] table = "fill_desc_dictionary" ->
            E("FillDesc", [fillProperty |-> IF v = 1 THEN "FILL" ELSE "HOLLOW"], <<>>)
      [] table = "standard_dict" ->
            E("Circle", [diameter |-> Digit(v)], <<>>)
      [] table = "user_dict" ->
            E("UserSpecial", NoAttrib, <<E("Circle", [diameter |-> Digit(v)], <<>>)>>)

\* an entry of a table: with one of the two contents, or (v = 0) empty
EntryOf(d) ==
    E(EntryTag(d.table), [id |-> d.id],
      IF d.v = 0 THEN <<>> ELSE <<EntryChild(d.table, d.v)>>)

EntrySamples ==
    [table : TableNames, id : {"A"}, v : {0, 1, 2}]
        \cup [table : TableNames, id : {"B"}, v : {1}]

RECURSIVE EntriesUpTo(_)
EntriesUpTo(n) ==
    IF n = 0 THEN {<<>>}
    ELSE LET shorter == EntriesUpTo(n - 1)
         IN  shorter \cup {Append(ds, d) : ds \in shorter, d \in EntrySamples}

DictionaryOf(table, ds) ==
    E(DictTag(table), [units |-> "MILLIMETER"],
      [i \in 1..Len(SelectSeq(ds, LAMBDA d : d.table = table)) |->
          EntryOf(SelectSeq(ds, LAMBDA d : d.table = table)[i])])

ContentDocument(ds) ==
    E("IPC-2581", NoAttrib,
      <<E("Content", NoAttrib,
          <<DictionaryOf("color_dictionary", ds), DictionaryOf("line_desc_dictionary", ds),
            DictionaryOf("fill_desc_dictionary", ds), DictionaryOf("standard_dict", ds),
            DictionaryOf("user_dict", ds)>>)>>)

DictInit ==
    /\ cl_fn = ""
    /\ cl_self = NewPCBAssembly
    /\ cl_node \in {ContentDocument(ds) : ds \in EntriesUpTo(MaxEntries)}
    /\ cl_out = R([kind |-> ""], NoErr, <<>>)

CallParseContent ==
    /\ cl_fn = ""
    /\ Called("parse_Content", parse_Content(cl_self, cl_node))

DictNext == CallParseContent

(***************************************************************************)
(* Harness of the references: an element that refers to a dictionary       *)
(* entry by ID, handed to its loader after the dictionaries were built.    *)
(***************************************************************************)
RefIds == {"A", "B", "Z"}

\* cl_self here: the PCBAssembly after parse_Content, with no entry, with
\* the ID A in every table, or with the IDs A and B
TableOrder ==
    <<"color_dictionary", "line_desc_dictionary", "fill_desc_dictionary",
      "standard_dict", "user_dict">>

EveryTable(id) == [i \in 1..5 |-> [table |-> TableOrder[i], id |-> id, v |-> 1]]

DictionaryStates ==
    { parse_Content(NewPCBAssembly, ContentDocument(ds)).obj :
        ds \in {<<>>, EveryTable("A"), EveryTable("A") \o EveryTable("B")} }

RefChild(tag, id) == E(tag, [id |-> id], <<>>)

RefSamples(id) ==
    { E("Circle", [diameter |-> T("1")], <<RefChild("FillDescRef", id)>>),
      E("RectCenter", [width |-> T("1"), height |-> T("2")],
        <<RefChild("FillDescRef", id)>>),
      E("Oval", [width |-> T("1"), height |-> T("2")], <<RefChild("FillDescRef", id)>>),
      E("Features", NoAttrib, <<Loc(T("1"), T("2")), RefChild("UserPrimitiveRef", id)>>),
      E("Features", NoAttrib, <<Loc(T("1"), T("2")), RefChild("StandardPrimitiveRef", id)>>),
      E("Pad", [padstackDefRef |-> "P1"],
        <<Loc(T("1"), T("1")), RefChild("StandardPrimitiveRef", id)>>),
      E("Pin", [number |-> "1", type |-> "SURFACE", electricalType |-> "ELECTRICAL"],
        <<Loc(T("1"), T("1")), RefChild("StandardPrimitiveRef", id)>>),
      E("PhyNetPoint", [layerRef |-> "TOP", x |-> T("1"), y |-> T("0"),
                        netNode |-> "END", exposure |-> "EXPOSED", via |-> <<"t","r","u","e">>],
        <<RefChild("StandardPrimitiveRef", id)>>) }

RefInit ==
    /\ cl_fn = ""
    /\ cl_self \in DictionaryStates
    /\ cl_node \in UNION {RefSamples(id) : id \in RefIds}
    /\ cl_out = R([kind |-> ""], NoErr, <<>>)

CallCircleLoad ==
    /\ cl_fn = "" /\ cl_node.tag = "Circle"
    /\ Called("IPC2581_Circle.load", IPC2581_Circle_load(cl_node))

CallRectCenterLoad ==
    /\ cl_fn = "" /\ cl_node.tag = "RectCenter"
    /\ Called("IPC2581_RectCenter.load", IPC2581_RectCenter_load(cl_node))

CallOvalLoad ==
    /\ cl_fn = "" /\ cl_node.tag = "Oval"
    /\ Called("IPC2581_Oval.load", IPC2581_Oval_load(cl_node))

RefFeatures ==
    /\ cl_fn = "" /\ cl_node.tag = "Features"
    /\ Called("load_feature", load_feature(LayerNet("GND"), cl_node))

RefPad ==
    /\ cl_fn = "" /\ cl_node.tag = "Pad"
    /\ Called("IPC2581_Pad.load", IPC2581_Pad_load(cl_node))

RefPin ==
    /\ cl_fn = "" /\ cl_node.tag = "Pin"
    /\ Called("IPC2581_Pin.load", IPC2581_Pin_load(cl_node))

RefPhyNetPoint ==
    /\ cl_fn = "" /\ cl_node.tag = "PhyNetPoint"
    /\ Called("add_physical_net_point", add_physical_net_point(NewLayer("TOP"), cl_node))

RefNext ==
    \/ CallCircleLoad
    \/ CallRectCenterLoad
    \/ CallOvalLoad
    \/ RefFeatures
    \/ RefPad
    \/ RefPin
    \/ RefPhyNetPoint

(***************************************************************************)
(* Harness of the build: a document is chosen, then PCBAssembly(root) runs *)
(* phase by phase.                                                         *)
(***************************************************************************)
MaxLayerRefs == 2

MaxPhyNetPoints == 2

LayerNames == {"TOP", "BOT"}

RECURSIVE NamesUpTo(_)
NamesUpTo(n) ==
    IF n = 0 THEN {<<>>}
    ELSE LET shorter == NamesUpTo(n - 1)
         IN  shorter \cup {Append(q, c) : q \in shorter, c \in LayerNames}

LayerRecord(name) ==
    E("Layer", [name |-> name, layerFunction |-> "SIGNAL", side |-> "TOP",
                polarity |-> "POSITIVE"], <<>>)

\* a StackupLayer with texts that parse, or with texts that do not
StackupLayerSample(name, kind) ==
    IF kind = "good"
    THEN E("StackupLayer",
           [layerOrGroupRef |-> name, thickness |-> <<"1", ".", "5">>,
            tolPlus |-> <<".", "1">>, tolMinus |-> <<".", "2">>, sequence |-> T("3")],
           <<>>)
    ELSE E("StackupLayer",
           [layerOrGroupRef |-> name, thickness |-> T("x"), sequence |-> T("sup2")],
           <<>>)

LayerFeatureSample(name) ==
    E("LayerFeature", [layerRef |-> name],
      <<E("Set", [net |-> "GND"], <<CircleFeatures>>),
        E("Set", NoAttrib,
          <<E("Features", NoAttrib,
              <<E("UserPrimitiveRef", [id |-> "U1"], <<>>)>>)>>)>>)

ComponentSample(name) ==
    E("Component", [refDes |-> "R1", packageRef |-> "0402", part |-> "10k",
                    mountType |-> "SMT", layerRef |-> name, standoff |-> T("0")],
      <<Loc(T("1"), T("1"))>>)

PhyNetPointSample(name, i) ==
    E("PhyNetPoint", [layerRef |-> name, x |-> Digit(i), y |-> T("0"),
                      netNode |-> "END", exposure |-> "EXPOSED", via |-> <<"t", "r", "u", "e">>],
      <<>>)

ShapeSample(tag) ==
    IF tag = "Circle" THEN E("Circle", [diameter |-> T("9")], <<>>)
    ELSE E("RectCenter", [width |-> T("4"), height |-> T("2")], <<>>)

\* no Profile and no Datum, or both
ProfileSamples ==
    { <<>>,
      <<E("Profile", NoAttrib, <<ShapeSample("Circle")>>), Pt("Datum", T("1"), T("2"))>> }

MarkingSample(usage) ==
    E("Marking", [markingUsage |-> usage],
      <<Loc(T("0"), T("0")),
        E("Polyline", NoAttrib,
          <<Pt("PolyBegin", T("0"), T("0")), Pt("PolyStepSegment", T("1"), T("0")),
            E("LineDesc", [lineEnd |-> "ROUND", lineWidth |-> T("1")], <<>>)>>)>>)

PinSample(number) ==
    E("Pin", [number |-> number, type |-> "SURFACE", electricalType |-> "ELECTRICAL"],
      <<Loc(T("1"), T("0")), E("StandardPrimitiveRef", [id |-> "S9"], <<>>)>>)

\* the sections of a Package element
OutlineSample(tag) ==
    E("Outline", NoAttrib,
      <<ShapeSample(tag), E("LineDesc", [lineEnd |-> "ROUND", lineWidth |-> T("1")], <<>>)>>)

SilkScreenSample == E("SilkScreen", NoAttrib, <<MarkingSample("REFDES")>>)

AssemblyDrawingSample(tag) ==
    E("AssemblyDrawing", NoAttrib, <<OutlineSample(tag), MarkingSample("PARTNAME")>>)

LandPatternSample == E("LandPattern", NoAttrib, <<PadSample, PadSample>>)

PackageOf(name, sections) ==
    E("Package", [name |-> name, type |-> "CHIP", pinOne |-> "1",
                  pinOneOrientation |-> "LEFT", height |-> <<"0", ".", "5">>],
      sections)

PackageSample(name, tag) ==
    PackageOf(name, <<OutlineSample(tag), Pt("PickupPoint", T("1"), T("2")),
                      SilkScreenSample, AssemblyDrawingSample(tag),
                      PinSample("1"), PinSample("2"), LandPatternSample>>)

LogisticHeaderSample ==
    E("LogisticHeader", NoAttrib,
      <<E("Role", [id |-> "Owner", roleFunction |-> "SENDER"], <<>>),
        E("Enterprise", [id |-> "ACME", code |-> "NONE"], <<>>),
        E("Person", [name |-> "PCB", enterpriseRef |-> "ACME", roleRef |-> "Owner"],
          <<>>)>>)

BomSample ==
    E("Bom", [name |-> "BOM1"],
      <<E("BomHeader", [assembly |-> "BOARD", revision |-> "B6"],
          <<E("StepRef", [name |-> "BOARD"], <<>>)>>),
        E("BomItem", [quantity |-> T("2"), pinCount |-> T("2"),
                      category |-> "ELECTRICAL", OEMDesignNumberRef |-> "10k"],
          <<E("RefDes", [name |-> "R1", packageRef |-> "0402"], <<>>),
            E("RefDes", [name |-> "R2", packageRef |-> "0402"], <<>>),
            E("Characteristics", [category |-> "ELECTRICAL"],
              <<E("Textual", [textualCharacteristicName |-> "VALUE",
                              textualCharacteristicValue |-> "10k"], <<>>)>>),
            E("Characteristics", NoAttrib, <<>>)>>),
        E("BomItem", [quantity |-> T("1"), pinCount |-> T("8"),
                      category |-> "ELECTRICAL", OEMDesignNumberRef |-> "NE555"],
          <<E("RefDes", [name |-> "U1", packageRef |-> "SO8"], <<>>)>>)>>)

\* what Content holds besides the LayerRef elements: every table has the ID
\* A, the colors have it twice
ContentSample ==
    <<E("FunctionMode", [mode |-> "ASSEMBLY", level |-> T("3")], <<>>),
      E("StepRef", [name |-> "BOARD"], <<>>),
      E("BomRef", [name |-> "BOM1"], <<>>)>>
    \o ContentDocument(EveryTable("A")
                       \o <<[table |-> "color_dictionary", id |-> "A", v |-> 2]>>).kids[1].kids

SeqOfSet(S, F(_)) ==
    LET RECURSIVE Build(_)
        Build(rest) ==
            IF rest = {} THEN <<>>
            ELSE LET n == CHOOSE x \in rest : \A y \in rest : x = y \/ F(x) < F(y)
                 IN  <<n>> \o Build(rest \ {n})
    IN  Build(S)

NameOrder(n) == IF n = "TOP" THEN 1 ELSE 2

InOrder(S) == SeqOfSet(S, NameOrder)

\* the document: layer_refs listed in Content, the names that have a Layer
\* record, the StackupLayer of TOP (BOT always has a good one), whether the
\* layers have features and components, the layerRefs of the PhyNetPoints,
\* and the Profile
Document(refs, declared, stackup, withFeatures, phy, profile) ==
    E("IPC-2581", NoAttrib,
      << E("Content", NoAttrib,
           [i \in 1..Len(refs) |-> E("LayerRef", [name |-> refs[i]], <<>>)]
           \o ContentSample),
         LogisticHeaderSample,
         BomSample,
         E("Ecad", NoAttrib,
           << E("CadData", NoAttrib,
                [i \in 1..Len(InOrder(declared)) |-> LayerRecord(InOrder(declared)[i])]
                \o << E("Stackup", NoAttrib,
                        << E("StackupGroup", NoAttrib,
                             (IF stackup = "none" THEN <<>>
                              ELSE <<StackupLayerSample("TOP", stackup)>>)
                             \o <<StackupLayerSample("BOT", "good")>>) >>),
                      E("Step", NoAttrib,
                        (IF withFeatures
                         THEN <<LayerFeatureSample("TOP"), LayerFeatureSample("BOT"),
                                ComponentSample("BOT"), ComponentSample("TOP")>>
                         ELSE <<>>)
                        \o << E("PhyNetGroup", NoAttrib,
                                << E("PhyNet", [name |-> "GND"],
                                     [i \in 1..Len(phy) |->
                                         PhyNetPointSample(phy[i], i)]) >>) >>
                        \o profile
                        \o <<PackageSample("0402", "Circle")>>) >>) >>) >>)

\* the PhyNetPoints vary in the documents that have everything else
Documents ==
    {Document(refs, declared, stackup, withFeatures, <<>>, profile) :
        refs \in NamesUpTo(MaxLayerRefs), declared \in SUBSET LayerNames,
        stackup \in {"none", "good", "bad"}, withFeatures \in BOOLEAN,
        profile \in ProfileSamples}
    \cup
    {Document(refs, declared, "good", TRUE, phy, <<>>) :
        refs \in NamesUpTo(MaxLayerRefs), declared \in SUBSET LayerNames,
        phy \in NamesUpTo(MaxPhyNetPoints)}

\* another document: what a script may have bound the name root to before
\* it builds the tree at hand
OtherTree ==
    E("IPC-2581", NoAttrib,
      << E("Content", NoAttrib, <<>>),
         E("Ecad", NoAttrib,
           << E("CadData", NoAttrib,
                << E("Step", NoAttrib,
                     << E("Profile", NoAttrib, <<ShapeSample("RectCenter")>>),
                        Pt("Datum", T("7"), T("7")),
                        PackageSample("SOT23", "RectCenter") >>) >>) >>) >>)

\* the name root of the module is not bound (the module was imported),
\* bound to the tree being built (the module runs as a script), or bound to
\* another tree
UnboundRoot == E("<unbound>", NoAttrib, <<>>)

BuildInit ==
    /\ bd_root \in Documents
    /\ bd_global \in {bd_root, UnboundRoot, OtherTree}
    /\ bd_pc = "Content"
    /\ bd_self = NewPCBAssembly
    /\ bd_next = 1
    /\ bd_err = NoErr
    /\ bd_log = <<>>
    /\ bd_layer = NewLayer("")
    /\ bd_run = 1
    /\ bd_first = NewPCBAssembly

BuildIdle ==
    /\ bd_root = NoNode
    /\ bd_global = NoNode
    /\ bd_pc = "idle"
    /\ bd_self = NewPCBAssembly
    /\ bd_next = 1
    /\ bd_err = NoErr
    /\ bd_log = <<>>
    /\ bd_layer = NewLayer("")
    /\ bd_run = 0
    /\ bd_first = NewPCBAssembly

\* (a variant that builds the layers and the rest of parse_ECad before the
\* logistic header and the BOM)
NextPhase_EcadFirst(pc) ==
    CASE pc = "Content" -> "Layers"
      [] pc = "Profile" -> "Datum"
      [] pc = "Datum" -> "Packages"
      [] pc = "Packages" -> "LogisticHeader"
      [] pc = "LogisticHeader" -> "Bom"
      [] pc = "Bom" -> "HistoryRecord"
      [] pc = "HistoryRecord" -> "BomAgain"
      [] pc = "BomAgain" -> "done"

\* the calls at the end of PCBAssembly.__init__ and the sections of
\* parse_ECad, each with the one that follows it
NextPhase(pc) ==
    CASE pc = "Content" -> "LogisticHeader"
      [] pc = "LogisticHeader" -> "Bom"
      [] pc = "Bom" -> "HistoryRecord"
      [] pc = "HistoryRecord" -> "BomAgain"
      [] pc = "BomAgain" -> "Layers"
      [] pc = "Profile" -> "Datum"
      [] pc = "Datum" -> "Packages"
      [] pc = "Packages" -> "done"

\* the object, the exception and the log after a phase that gave r; the
\* phase that follows is pc
AfterPhase(r, pc) ==
    /\ bd_log' = bd_log \o r.log
    /\ bd_err' = r.err
    /\ IF Failed(r)
       THEN bd_pc' = "error" /\ UNCHANGED bd_self
       ELSE bd_pc' = pc /\ bd_self' = r.obj

ParseContent ==
    /\ bd_pc = "Content"
    /\ AfterPhase(parse_Content(bd_self, bd_root), NextPhase("Content"))
    /\ UNCHANGED <<bd_root, bd_global, bd_next, bd_layer, bd_run, bd_first>>
    /\ UNCHANGED <<rdVars, chVars, lfVars, clVars>>

ParseLogisticHeader ==
    /\ bd_pc = "LogisticHeader"
    /\ AfterPhase(parse_LogisticHeader(bd_self, bd_root), NextPhase("LogisticHeader"))
    /\ UNCHANGED <<bd_root, bd_global, bd_next, bd_layer, bd_run, bd_first>>
    /\ UNCHANGED <<rdVars, chVars, lfVars, clVars>>

\* parse_Bom is called before and after parse_HistoryRecord
ParseBom ==
    /\ bd_pc \in {"Bom", "BomAgain"}
    /\ AfterPhase(parse_Bom(bd_self, bd_root), NextPhase(bd_pc))
    /\ UNCHANGED <<bd_root, bd_global, bd_next, bd_layer, bd_run, bd_first>>
    /\ UNCHANGED <<rdVars, chVars, lfVars, clVars>>

ParseHistoryRecord ==
    /\ bd_pc = "HistoryRecord"
    /\ AfterPhase(parse_HistoryRecord(bd_self), NextPhase("HistoryRecord"))
    /\ UNCHANGED <<bd_root, bd_global, bd_next, bd_layer, bd_run, bd_first>>
    /\ UNCHANGED <<rdVars, chVars, lfVars, clVars>>

\* a call of IPC2581_Layer.__init__ gave r: the layer, the exception and
\* the log; pc is the call that follows
AfterLayerStep(r, pc) ==
    /\ bd_log' = bd_log \o r.log
    /\ bd_err' = r.err
    /\ bd_pc' = IF Failed(r) THEN "error" ELSE pc
    /\ bd_layer' = IF Failed(r) THEN bd_layer ELSE r.obj
    /\ UNCHANGED <<bd_root, bd_global, bd_self, bd_next, bd_run, bd_first>>
    /\ UNCHANGED <<rdVars, chVars, lfVars, clVars>>

\* one pass of "for layer_name in self.layer_refs" starts: IPC2581_Layer(
\* self.root, layer_name) sets its fields and calls parse_Layer
ConstructLayer ==
    /\ bd_pc = "Layers"
    /\ bd_next <= Len(bd_self.layer_refs)
    /\ AfterLayerStep(parse_Layer(R(NewLayer(bd_self.layer_refs[bd_next]), NoErr, <<>>),
                                  bd_root),
                      "StackupLayer")

ParseStackupLayer ==
    /\ bd_pc = "StackupLayer"
    /\ AfterLayerStep(parse_StackupLayer(R(bd_layer, NoErr, <<>>), bd_root),
                      "LayerFeature")

ParseLayerFeature ==
    /\ bd_pc = "LayerFeature"
    /\ AfterLayerStep(parse_LayerFeature(R(bd_layer, NoErr, <<>>), bd_root),
                      "Components")

\* the last call of the constructor, then self.Layers[layer_name] = ...
ParseComponents ==
    /\ bd_pc = "Components"
    /\ AfterPhase(StoreLayer(bd_self, bd_layer.name,
                             parse_Components(R(bd_layer, NoErr, <<>>), bd_root)),
                  "Layers")
    /\ bd_next' = IF bd_pc' = "error" THEN bd_next ELSE bd_next + 1
    /\ UNCHANGED <<bd_root, bd_global, bd_layer, bd_run, bd_first>>
    /\ UNCHANGED <<rdVars, chVars, lfVars, clVars>>

ParseProfile ==
    /\ bd_pc = "Layers"
    /\ bd_next > Len(bd_self.layer_refs)
    /\ AfterPhase(parse_Profile(bd_self, bd_global), NextPhase("Profile"))
    /\ UNCHANGED <<bd_root, bd_global, bd_next, bd_layer, bd_run, bd_first>>
    /\ UNCHANGED <<rdVars, chVars, lfVars, clVars>>

ParseDatum ==
    /\ bd_pc = "Datum"
    /\ AfterPhase(parse_Datum(bd_self, bd_global), NextPhase("Datum"))
    /\ UNCHANGED <<bd_root, bd_global, bd_next, bd_layer, bd_run, bd_first>>
    /\ UNCHANGED <<rdVars, chVars, lfVars, clVars>>

LoadPackages ==
    /\ bd_pc = "Packages"
    /\ AfterPhase(load_Packages(bd_self, bd_global), NextPhase("Packages"))
    /\ UNCHANGED <<bd_root, bd_global, bd_next, bd_layer, bd_run, bd_first>>
    /\ UNCHANGED <<rdVars, chVars, lfVars, clVars>>

\* (a variant in which layer_refs is a list of the class, shared by every
\* PCBAssembly, and not one made by the constructor)
FreshAssembly_SharedLayerRefs(earlier) ==
    [NewPCBAssembly EXCEPT !.layer_refs = earlier.layer_refs]

\* what PCBAssembly.__init__ starts from when an earlier PCBAssembly exists:
\* every field is assigned anew
FreshAssembly(earlier) == NewPCBAssembly

\* the constructor has returned; PCBAssembly(root) is called once more on
\* the same tree
BuildAgain ==
    /\ bd_pc = "done"
    /\ bd_run = 1
    /\ bd_run' = 2
    /\ bd_first' = bd_self
    /\ bd_self' = FreshAssembly(bd_self)
    /\ bd_pc' = "Content"
    /\ bd_next' = 1
    /\ bd_log' = <<>>
    /\ bd_layer' = NewLayer("")
    /\ UNCHANGED <<bd_root, bd_global, bd_err>>
    /\ UNCHANGED <<rdVars, chVars, lfVars, clVars>>

BuildNext ==
    \/ ParseContent
    \/ ParseLogisticHeader
    \/ ParseBom
    \/ ParseHistoryRecord
    \/ ConstructLayer
    \/ ParseStackupLayer
    \/ ParseLayerFeature
    \/ ParseComponents
    \/ ParseProfile
    \/ ParseDatum
    \/ LoadPackages
    \/ BuildAgain

(***************************************************************************)
(* Harness of the coercions: a geometry element of which one numeric       *)
(* attribute may hold a text that is no number, handed to its loader.      *)
(***************************************************************************)
\* the numeric attributes each loader reads ("none": every text is a number)
Spots(tag) ==
    CASE tag = "Circle" -> {"none", "diameter"}
      [] tag \in {"RectCenter", "Oval"} -> {"none", "width", "height"}
      [] tag = "Line" -> {"none", "startX", "startY", "endX", "endY", "lineWidth"}
      [] tag = "Arc" -> {"none", "startX", "startY", "endX", "endY", "centerX", "centerY",
                         "lineWidth"}
      [] tag = "Polygon" -> {"none", "PolyBegin.x", "PolyBegin.y", "PolyStepSegment.x",
                             "PolyStepCurve.centerX"}
      [] tag = "Polyline" -> {"none", "PolyBegin.x", "PolyStepSegment.y", "lineWidth"}
      [] tag = "Contour" -> {"none", "PolyBegin.x", "PolyStepSegment.y", "Cutout.x"}

BadTexts == {T("u"), <<"1", "sup2">>, <<"1", ".", "5", ".">>}

\* the text at a spot: bad at the chosen one, a number elsewhere
V(spot, chosen, bad) == IF spot = chosen THEN bad ELSE T("1")

LineDescWith(chosen, bad) ==
    E("LineDesc", [lineEnd |-> "ROUND", lineWidth |-> V("lineWidth", chosen, bad)], <<>>)

ChainWith(tag, chosen, bad) ==
    E(tag, NoAttrib,
      <<Pt("PolyBegin", V("PolyBegin.x", chosen, bad), V("PolyBegin.y", chosen, bad)),
        Pt("PolyStepSegment", V("PolyStepSegment.x", chosen, bad),
           V("PolyStepSegment.y", chosen, bad)),
        E("PolyStepCurve",
          [x |-> T("2"), y |-> T("0"), centerX |-> V("PolyStepCurve.centerX", chosen, bad),
           centerY |-> T("0"), clockwise |-> "true"], <<>>)>>
      \o (IF tag = "Polyline" THEN <<LineDescWith(chosen, bad)>> ELSE <<>>))

CoercionSample(tag, chosen, bad) ==
    CASE tag = "Circle" -> E("Circle", [diameter |-> V("diameter", chosen, bad)], <<>>)
      [] tag \in {"RectCenter", "Oval"} ->
            E(tag, [width |-> V("width", chosen, bad), height |-> V("height", chosen, bad)],
              <<>>)
      [] tag = "Line" ->
            E("Line", [startX |-> V("startX", chosen, bad), startY |-> V("startY", chosen, bad),
                       endX |-> V("endX", chosen, bad), endY |-> V("endY", chosen, bad)],
              <<LineDescWith(chosen, bad)>>)
      [] tag = "Arc" ->
            E("Arc", [startX |-> V("startX", chosen, bad), startY |-> V("startY", chosen, bad),
                      endX |-> V("endX", chosen, bad), endY |-> V("endY", chosen, bad),
                      centerX |-> V("centerX", chosen, bad),
                      centerY |-> V("centerY", chosen, bad), clockwise |-> "true"],
              <<LineDescWith(chosen, bad)>>)
      [] tag \in {"Polygon", "Polyline"} -> ChainWith(tag, chosen, bad)
      [] tag = "Contour" ->
            E("Contour", NoAttrib,
              <<ChainWith("Polygon", chosen, bad),
                E("Cutout", NoAttrib,
                  <<Pt("PolyBegin", V("Cutout.x", chosen, bad), T("0")),
                    Pt("PolyStepSegment", T("1"), T("0"))>>)>>)

\* cl_self here: the spot whose text is bad
CoercionInit ==
    /\ cl_fn = ""
    /\ \E tag \in ShapeTags : \E chosen \in Spots(tag) : \E bad \in BadTexts :
          /\ cl_self = [spot |-> chosen]
          /\ cl_node = CoercionSample(tag, chosen, bad)
    /\ cl_out = R([kind |-> ""], NoErr, <<>>)

CallLineLoad ==
    /\ cl_fn = "" /\ cl_node.tag = "Line"
    /\ Called("IPC2581_Line.load", IPC2581_Line_load(cl_node))

CallArcLoad ==
    /\ cl_fn = "" /\ cl_node.tag = "Arc"
    /\ Called("IPC2581_Arc.load", IPC2581_Arc_load(cl_node))

CallPolygonLoad ==
    /\ cl_fn = "" /\ cl_node.tag = "Polygon"
    /\ Called("IPC2581_Polygon.load", IPC2581_Polygon_load(cl_node))

CallPolylineLoad ==
    /\ cl_fn = "" /\ cl_node.tag = "Polyline"
    /\ Called("IPC2581_Polyline.load", IPC2581_Polyline_load(cl_node))

CallContourLoad ==
    /\ cl_fn = "" /\ cl_node.tag = "Contour"
    /\ Called("IPC2581_Contour.load", IPC2581_Contour_load(cl_node))

CoercionNext ==
    \/ CallCircleLoad
    \/ CallRectCenterLoad
    \/ CallOvalLoad
    \/ CallLineLoad
    \/ CallArcLoad
    \/ CallPolygonLoad
    \/ CallPolylineLoad
    \/ CallContourLoad

(***************************************************************************)
(* Harness of the packages: a document with one Package made of some of    *)
(* its sections, then parse_Package; or a Marking element, then its load.  *)
(***************************************************************************)
MaxPins == 2

\* the choices for a section: left out, or there; an AssemblyDrawing may
\* also be there without its Outline
SectionChoices ==
    [Outline : BOOLEAN, PickupPoint : BOOLEAN, SilkScreen : BOOLEAN,
     AssemblyDrawing : {"absent", "whole", "no Outline"}, Pins : 0..MaxPins,
     LandPattern : BOOLEAN]

SectionsOf(c) ==
    (IF c.Outline THEN <<OutlineSample("Circle")>> ELSE <<>>)
    \o (IF c.PickupPoint THEN <<Pt("PickupPoint", T("1"), T("2"))>> ELSE <<>>)
    \o (IF c.SilkScreen THEN <<SilkScreenSample>> ELSE <<>>)
    \o (IF c.AssemblyDrawing = "whole" THEN <<AssemblyDrawingSample("RectCenter")>>
        ELSE IF c.AssemblyDrawing = "no Outline"
        THEN <<E("AssemblyDrawing", NoAttrib, <<MarkingSample("PARTNAME")>>)>>
        ELSE <<>>)
    \o [i \in 1..c.Pins |-> PinSample(Digit(i)[1])]
    \o (IF c.LandPattern THEN <<LandPatternSample>> ELSE <<>>)

PackageDocument(c) ==
    E("IPC-2581", NoAttrib,
      <<E("Ecad", NoAttrib,
          <<E("CadData", NoAttrib,
              <<E("Step", NoAttrib, <<PackageOf("0402", SectionsOf(c))>>)>>)>>)>>)

PolylineSample ==
    E("Polyline", NoAttrib,
      <<Pt("PolyBegin", T("0"), T("0")), Pt("PolyStepSegment", T("1"), T("0"))>>)

ContourSample ==
    E("Contour", NoAttrib,
      <<E("Polygon", NoAttrib,
          <<Pt("PolyBegin", T("0"), T("0")), Pt("PolyStepSegment", T("1"), T("0")),
            Pt("PolyStepSegment", T("0"), T("0"))>>)>>)

\* a Marking with or without its usage, Location, Polyline and Contour
MarkingSamples ==
    { E("Marking", IF c.usage THEN [markingUsage |-> "REFDES"] ELSE NoAttrib,
        (IF c.loc THEN <<Loc(T("0"), T("0"))>> ELSE <<>>)
        \o (IF c.polyline THEN <<PolylineSample>> ELSE <<>>)
        \o (IF c.contour THEN <<ContourSample>> ELSE <<>>)) :
        c \in [usage : BOOLEAN, loc : BOOLEAN, polyline : BOOLEAN, contour : BOOLEAN] }

PackageInit ==
    /\ cl_fn = ""
    /\ \/ /\ cl_self = NewPackage("0402")
          /\ cl_node \in {PackageDocument(c) : c \in SectionChoices}
       \/ /\ cl_self = NoNode
          /\ cl_node \in MarkingSamples
    /\ cl_out = R([kind |-> ""], NoErr, <<>>)

CallParsePackage ==
    /\ cl_fn = "" /\ cl_node.tag = "IPC-2581"
    /\ Called("parse_Package", parse_Package(cl_self, cl_node))

CallMarkingLoad ==
    /\ cl_fn = "" /\ cl_node.tag = "Marking"
    /\ Called("IPC2581_Marking.load", IPC2581_Marking_load(cl_node))

PackageNext == CallParsePackage \/ CallMarkingLoad

(***************************************************************************)
(* Harness of the geometry variants: a container of each dispatch site     *)
(* holding shapes that load on their own, then the site's loop.            *)
(***************************************************************************)
MaxShapes == 2

\* one element of each of the eight shape tags; each loads by its own loader
GoodShape(tag) == CoercionSample(tag, "none", T("1"))

RECURSIVE ShapesUpTo(_)
ShapesUpTo(n) ==
    IF n = 0 THEN {<<>>}
    ELSE LET shorter == ShapesUpTo(n - 1)
         IN  shorter \cup {Append(ks, GoodShape(tag)) : ks \in shorter, tag \in ShapeTags}

VariantInit ==
    /\ cl_fn = ""
    /\ cl_node \in UNION {SiteContainers(kids) : kids \in ShapesUpTo(MaxShapes) \ {<<>>}}
    /\ cl_self = SiteSelf(cl_node.tag)
    /\ cl_out = R([kind |-> ""], NoErr, <<>>)

(***************************************************************************)
(* Harness of the groupings of a net: parse_LayerFeature over Sets that    *)
(* are net geometry or no-net geometry, with and without Xform children.   *)
(***************************************************************************)
MaxGroupings == 3

XformSample(rotation) == E("Xform", [rotation |-> rotation], <<>>)

\* Features with no Xform, with one before or after the shapes, with two
GroupingFeatures ==
    { CircleFeatures,
      E("Features", NoAttrib,
        <<XformSample(<<"9", "0">>), Loc(T("3"), T("4")),
          E("Circle", [diameter |-> T("1")], <<>>)>>),
      E("Features", NoAttrib,
        <<Loc(T("5"), T("6")), E("Circle", [diameter |-> T("2")], <<>>),
          E("Xform", [rotation |-> <<"1", "8", "0">>, xOffset |-> T("7")], <<>>)>>),
      E("Features", NoAttrib,
        <<XformSample(<<"4", "5">>), Loc(T("0"), T("0")),
          E("Circle", [diameter |-> T("3")], <<>>),
          XformSample(<<"2", "7", "0">>)>>) }

GroupingSamples ==
    {E("Set", [net |-> n], <<f>>) : n \in NetNames, f \in GroupingFeatures}
    \cup {E("Set", [net |-> n], <<>>) : n \in NetNames}
    \cup {E("Set", NoAttrib, <<f>>) : f \in GroupingFeatures}

\* one pass of "for set_node in layerfeat_node.findall('Set')" over a
\* grouping
NextGrouping ==
    /\ lf_pc = "sets"
    /\ Len(lf_seen) < MaxGroupings
    /\ \E set_node \in GroupingSamples : AfterSet(set_node, ProcessSet(lf_layer, set_node))
    /\ UNCHANGED <<rdVars, chVars, bdVars, clVars>>

GroupingNext == FindLayerFeature \/ NoLayerFeature \/ NextGrouping \/ EndOfSets

vars == <<rdVars, chVars, lfVars, bdVars, clVars>>

InitReader == ReaderInit /\ ChainIdle /\ LayerIdle /\ BuildIdle /\ LoaderIdle

InitChain == ChainInit /\ ReaderIdle /\ LayerIdle /\ BuildIdle /\ LoaderIdle

Init == LayerInit /\ ReaderIdle /\ ChainIdle /\ BuildIdle /\ LoaderIdle

InitBuild == BuildInit /\ ReaderIdle /\ ChainIdle /\ LayerIdle /\ LoaderIdle

OthersIdle == ReaderIdle /\ ChainIdle /\ LayerIdle /\ BuildIdle

InitXform == XformInit /\ OthersIdle

InitDispatch == DispatchInit /\ OthersIdle

InitDict == DictInit /\ OthersIdle

InitRef == RefInit /\ OthersIdle

InitCoercion == CoercionInit /\ OthersIdle

InitPackage == PackageInit /\ OthersIdle

InitVariant == VariantInit /\ OthersIdle

InitGrouping == LayerInit /\ ReaderIdle /\ ChainIdle /\ BuildIdle /\ LoaderIdle

SpecReader == InitReader /\ [][ReaderNext]_vars

SpecChain == InitChain /\ [][ChainNext]_vars

Spec == Init /\ [][Next]_vars

SpecBuild == InitBuild /\ [][BuildNext]_vars

SpecXform == InitXform /\ [][XformNext]_vars

SpecDispatch == InitDispatch /\ [][DispatchNext]_vars

SpecDict == InitDict /\ [][DictNext]_vars

SpecRef == InitRef /\ [][RefNext]_vars

SpecCoercion == InitCoercion /\ [][CoercionNext]_vars

SpecPackage == InitPackage /\ [][PackageNext]_vars

SpecVariant == InitVariant /\ [][DispatchNext]_vars

SpecGrouping == InitGrouping /\ [][GroupingNext]_vars

(***************************************************************************)
(* Layer features (Spec)                                                   *)
(***************************************************************************)
\* the Sets whose pass of the loop has ended without an exception
Completed ==
    IF lf_pc = "error" THEN SubSeq(lf_seen, 1, Len(lf_seen) - 1) ELSE lf_seen

LastSeen == lf_seen[Len(lf_seen)]

HasNet(s) == "net" \in DOMAIN s.attrib

IsPadOrVia(s) == HasNet(s) /\ "padUsage" \in DOMAIN s.attrib

IsSkipped(s) ==
    HasNet(s) /\ "padUsage" \notin DOMAIN s.attrib /\ "geometry" \in DOMAIN s.attrib

IsNetOnly(s) ==
    HasNet(s) /\ "padUsage" \notin DOMAIN s.attrib /\ "geometry" \notin DOMAIN s.attrib

HasFeatures(s) == ~IsNone(find(s, "Features"))

NetOnlySets(sets, n) == SelectSeq(sets, LAMBDA s : IsNetOnly(s) /\ s.attrib["net"] = n)

\* what one child of Features stands for in the model
FeatureOfKid(k) ==
    IF k.tag = "UserPrimitiveRef" THEN [kind |-> "Ref", id |-> k.attrib["id"]]
    ELSE LoadShape(k).obj

LocationOfKid(k) == <<read_float(k.attrib, "x").val, read_float(k.attrib, "y").val>>

\* the features and the locations one Set contributes, in document order
FeaturesOfSet(s) ==
    IF HasFeatures(s)
    THEN LET ks == SelectSeq(find(s, "Features").kids,
                             LAMBDA k : k.tag \in ShapeTags \cup {"UserPrimitiveRef"})
         IN  [j \in 1..Len(ks) |-> FeatureOfKid(ks[j])]
    ELSE <<>>

LocationsOfSet(s) ==
    IF HasFeatures(s)
    THEN LET ks == findall(find(s, "Features"), "Location")
         IN  [j \in 1..Len(ks) |-> LocationOfKid(ks[j])]
    ELSE <<>>

RECURSIVE FeaturesOfAll(_, _)
FeaturesOfAll(sets, i) ==
    IF i > Len(sets) THEN <<>> ELSE FeaturesOfSet(sets[i]) \o FeaturesOfAll(sets, i + 1)

RECURSIVE LocationsOfAll(_, _)
LocationsOfAll(sets, i) ==
    IF i > Len(sets) THEN <<>> ELSE LocationsOfSet(sets[i]) \o LocationsOfAll(sets, i + 1)

\* C1: at every point of the loop, for every net name N that net-only Sets
\* gone through so far carry, nets holds one LayerNet under N, named N, whose
\* features and feature_locations are the concatenation, in document order,
\* of what each of these Sets contributes.  Holding after every Set, this
\* says that a later Set only appends.
C1_NetAccumulation ==
    \A n \in NetNames :
        Len(NetOnlySets(Completed, n)) > 0 =>
            /\ n \in DOMAIN lf_layer.nets
            /\ lf_layer.nets[n].name = n
            /\ lf_layer.nets[n].features = FeaturesOfAll(NetOnlySets(Completed, n), 1)
            /\ lf_layer.nets[n].feature_locations =
                   LocationsOfAll(NetOnlySets(Completed, n), 1)

\* three Sets gone through, the first and the last net-only Sets of one net
\* that both contribute features, something else in between
C1_Witness ==
    /\ lf_pc = "done"
    /\ Len(lf_seen) = 3
    /\ IsNetOnly(lf_seen[1]) /\ IsNetOnly(lf_seen[3])
    /\ lf_seen[1].attrib["net"] = lf_seen[3].attrib["net"]
    /\ ~(IsNetOnly(lf_seen[2]) /\ lf_seen[2].attrib["net"] = lf_seen[1].attrib["net"])
    /\ Len(FeaturesOfSet(lf_seen[1])) > 0 /\ Len(LocationsOfSet(lf_seen[1])) > 0
    /\ Len(FeaturesOfSet(lf_seen[3])) > 0
    /\ FeaturesOfSet(lf_seen[1]) # FeaturesOfSet(lf_seen[3])

NoNetSets(sets) == SelectSeq(sets, LAMBDA s : ~HasNet(s))

NoNetSetsWithFeatures(sets) == SelectSeq(sets, LAMBDA s : ~HasNet(s) /\ HasFeatures(s))

\* C2 as claimed: every Set without a net, with or without a Features child,
\* has its own record in nonet_geom.
C2_EveryNoNetSetRecorded ==
    Len(lf_layer.nonet_geom) = Len(NoNetSets(Completed))

\* C2: nonet_geom holds one record per Set without a net that has a Features
\* child, in document order, each with what that Set contributes and no name;
\* a Set without a net and without a Features child leaves no record; and
\* nets has entries only under the names of net-only Sets.
C2_NoNetWithFeaturesRecorded ==
    /\ Len(lf_layer.nonet_geom) = Len(NoNetSetsWithFeatures(Completed))
    /\ \A i \in 1..Len(lf_layer.nonet_geom) :
          /\ lf_layer.nonet_geom[i].name = ""
          /\ lf_layer.nonet_geom[i].features =
                 FeaturesOfSet(NoNetSetsWithFeatures(Completed)[i])
          /\ lf_layer.nonet_geom[i].feature_locations =
                 LocationsOfSet(NoNetSetsWithFeatures(Completed)[i])
    /\ \A n \in DOMAIN lf_layer.nets : Len(NetOnlySets(Completed, n)) > 0

\* two Sets without a net that differ, then one without even a Features child
C2_Witness ==
    /\ lf_pc = "done"
    /\ Len(lf_seen) = 3
    /\ \A i \in 1..3 : ~HasNet(lf_seen[i])
    /\ HasFeatures(lf_seen[1]) /\ HasFeatures(lf_seen[2]) /\ ~HasFeatures(lf_seen[3])
    /\ Len(FeaturesOfSet(lf_seen[1])) > 0
    /\ FeaturesOfSet(lf_seen[1]) # FeaturesOfSet(lf_seen[2])
    /\ Len(lf_layer.nonet_geom) = 2

SetsOfUsage(sets, usage) ==
    SelectSeq(sets, LAMBDA s : IsPadOrVia(s) /\ s.attrib["padUsage"] = usage)

NonstdOf(s) ==
    {findall(s, "NonstandardAttribute")[i] :
        i \in 1..Len(findall(s, "NonstandardAttribute"))}

\* the record holds the Pad of the Set if it has one, its NonstandardAttribute
\* children as a mapping, and its plate and testPoint flags
ViaRecordOf(rec, s) ==
    /\ (rec.pad.kind = "None") <=> IsNone(find(s, "Pad"))
    /\ ~IsNone(find(s, "Pad")) =>
           rec.pad.padstackDefRef = find(s, "Pad").attrib["padstackDefRef"]
    /\ DOMAIN rec.nonstd_attrib =
           {k.attrib["name"] : k \in NonstdOf(s)}
    /\ \A n \in DOMAIN rec.nonstd_attrib :
           \E k \in NonstdOf(s) :
               k.attrib["name"] = n /\ k.attrib["value"] = rec.nonstd_attrib[n]
    /\ rec.plate = BoolV("plate" \in DOMAIN s.attrib /\ s.attrib["plate"] = "true")
    /\ rec.testPoint =
           BoolV("testPoint" \in DOMAIN s.attrib /\ s.attrib["testPoint"] = "true")

\* C3: a Set with a net and a padUsage, with or without a geometry attribute,
\* is a pad or via: the Sets of padUsage VIA are the records of vias, those
\* of padUsage NONE the records of pads_not_used, one record each in document
\* order, and none of them makes an entry in nets.
C3_PadUsageFirst ==
    /\ Len(lf_layer.vias) = Len(SetsOfUsage(Completed, "VIA"))
    /\ \A i \in 1..Len(lf_layer.vias) :
          ViaRecordOf(lf_layer.vias[i], SetsOfUsage(Completed, "VIA")[i])
    /\ Len(lf_layer.pads_not_used) = Len(SetsOfUsage(Completed, "NONE"))
    /\ \A i \in 1..Len(lf_layer.pads_not_used) :
          ViaRecordOf(lf_layer.pads_not_used[i], SetsOfUsage(Completed, "NONE")[i])
    /\ \A n \in DOMAIN lf_layer.nets : Len(NetOnlySets(Completed, n)) > 0

\* a VIA Set that also has a geometry attribute, a Pad and attributes, and a
\* NONE Set, both gone through, and no net geometry anywhere
C3_Witness ==
    /\ lf_pc = "done"
    /\ \E i \in 1..Len(lf_seen) :
          /\ IsPadOrVia(lf_seen[i]) /\ lf_seen[i].attrib["padUsage"] = "VIA"
          /\ "geometry" \in DOMAIN lf_seen[i].attrib
          /\ ~IsNone(find(lf_seen[i], "Pad"))
    /\ \E i \in 1..Len(lf_seen) :
          IsPadOrVia(lf_seen[i]) /\ lf_seen[i].attrib["padUsage"] = "NONE"
    /\ Len(lf_layer.vias) = 1 /\ lf_layer.vias[1].plate = BoolV(TRUE)
    /\ DOMAIN lf_layer.vias[1].nonstd_attrib = {"a", "b"}
    /\ Len(lf_layer.pads_not_used) >= 1
    /\ DOMAIN lf_layer.nets = {}

\* C4: the pass of the loop over a Set with a net and a geometry attribute
\* and no padUsage raises nothing, prints nothing, leaves the layer as it
\* was, and leaves the loop going.
C4_GeometrySetSkipped ==
    [][(Len(lf_seen') = Len(lf_seen) + 1 /\ IsSkipped(lf_seen'[Len(lf_seen')])) =>
           (lf_layer' = lf_layer /\ lf_err' = NoErr /\ lf_log' = lf_log
            /\ lf_pc' = "sets")]_vars

\* a skipped Set with a Features child between two Sets that are read
C4_Witness ==
    /\ lf_pc = "done"
    /\ Len(lf_seen) = 3
    /\ IsNetOnly(lf_seen[1]) /\ IsSkipped(lf_seen[2]) /\ ~HasNet(lf_seen[3])
    /\ HasFeatures(lf_seen[2]) /\ HasFeatures(lf_seen[3])
    /\ lf_seen[1].attrib["net"] # lf_seen[2].attrib["net"]
    /\ DOMAIN lf_layer.nets = {lf_seen[1].attrib["net"]}
    /\ Len(lf_layer.nonet_geom) = 1

(***************************************************************************)
(* The build (SpecBuild)                                                   *)
(***************************************************************************)
\* the PhyNetPoint elements of the document, in document order
PhyNetPointsOf(root, name) ==
    findall_where(root, <<"Ecad", "CadData", "Step", "PhyNetGroup", "PhyNet",
                          "PhyNetPoint">>, "layerRef", name)

\* C7: the Layer built for the name L holds in physical_net_points the
\* PhyNetPoint records of the document whose layerRef is L: as many, in
\* document order, each at the position its element gives.
C7_PhysicalNetPoints ==
    \A L \in DOMAIN bd_self.Layers :
        /\ Len(bd_self.Layers[L].physical_net_points) = Len(PhyNetPointsOf(bd_root, L))
        /\ \A i \in 1..Len(bd_self.Layers[L].physical_net_points) :
              bd_self.Layers[L].physical_net_points[i].position =
                  LocationOfKid(PhyNetPointsOf(bd_root, L)[i])

\* the layer names Content lists, in document order
DocLayerRefs ==
    [i \in 1..Len(findall_path(bd_root, <<"Content", "LayerRef">>)) |->
        findall_path(bd_root, <<"Content", "LayerRef">>)[i].attrib["name"]]

Undeclared(name) ==
    IsNone(find_where(bd_root, <<"Ecad", "CadData", "Layer">>, "name", name))

\* C8: when Content lists at position i a layer name that has no Layer
\* record, the build never gets past that name: no Layer is ever stored for
\* it, none for a name first listed after it, the Profile and the Packages
\* stay unbuilt, the constructor never returns, and the pass of the loop over
\* that name ends the build with a ValueError that names the layer.
C8_MissingLayerIsFatal ==
    \A i \in 1..Len(DocLayerRefs) :
        Undeclared(DocLayerRefs[i]) =>
            /\ DOMAIN bd_self.Layers \subseteq {DocLayerRefs[j] : j \in 1..(i - 1)}
            /\ DocLayerRefs[i] \notin DOMAIN bd_self.Layers
            /\ bd_next <= i
            /\ bd_pc \notin {"Datum", "Packages", "done"}
            /\ bd_self.Profile = NoShape /\ bd_self.Packages = NoPackages
            /\ (bd_next = i /\ bd_pc = "error") =>
                   bd_err = Err("ValueError", DocLayerRefs[i])

\* the build has stopped at the first of two layer names, the one without a
\* Layer record, in a document whose second layer, Profile and Package are
\* all there
C8_Witness ==
    /\ bd_pc = "error"
    /\ Len(DocLayerRefs) = 2 /\ bd_next = 1
    /\ Undeclared(DocLayerRefs[1]) /\ ~Undeclared(DocLayerRefs[2])
    /\ bd_err = Err("ValueError", DocLayerRefs[1])
    /\ ~IsNone(find_path(bd_root, <<"Ecad", "CadData", "Step", "Profile">>))
    /\ ~IsNone(find_path(bd_root, <<"Ecad", "CadData", "Step", "Package">>))
    /\ bd_global = bd_root
    /\ DOMAIN bd_self.Layers = {}

NoStackupLayer(name) ==
    IsNone(find_where(bd_root, <<"Ecad", "CadData", "Stackup", "StackupGroup",
                                 "StackupLayer">>, "layerOrGroupRef", name))

HasLayerFeature(name) ==
    ~IsNone(find_where(bd_root, <<"Ecad", "CadData", "Step", "LayerFeature">>,
                       "layerRef", name))

Zero == FloatV(0, 0)

\* C9: a Layer built for a name without a StackupLayer record is built all
\* the same: the warning is printed, its features and components are read,
\* and its thickness, tolPlus, tolMinus and sequence are zero.
C9_StackupDefaults ==
    \A L \in DOMAIN bd_self.Layers :
        NoStackupLayer(L) =>
            /\ \E i \in 1..Len(bd_log) : bd_log[i] = Warning("no StackupLayer", L)
            /\ HasLayerFeature(L) =>
                   (DOMAIN bd_self.Layers[L].nets # {}
                    /\ Len(bd_self.Layers[L].components) > 0)
            /\ bd_self.Layers[L].thickness = Zero
            /\ bd_self.Layers[L].tolPlus = Zero
            /\ bd_self.Layers[L].tolMinus = Zero
            /\ bd_self.Layers[L].sequence = IntV(0)

\* the five tables of a PCBAssembly
DictionariesOf(obj) ==
    <<obj.color_dictionary, obj.line_desc_dictionary, obj.fill_desc_dictionary,
      obj.standard_dict, obj.user_dict>>

\* the phases so far gave what the document holds: the five tables, the
\* logistic header, the BOM, one Layer per name of Content
HasDictionaries ==
    DictionariesOf(bd_self) = DictionariesOf(parse_Content(NewPCBAssembly, bd_root).obj)

HasHeader ==
    /\ bd_self.Role = find_path(bd_root, <<"LogisticHeader", "Role">>).attrib
    /\ bd_self.Enterprise = find_path(bd_root, <<"LogisticHeader", "Enterprise">>).attrib
    /\ bd_self.Person = find_path(bd_root, <<"LogisticHeader", "Person">>).attrib

HasBom == bd_self.Bom.loaded /\ bd_self.Bom.name = find(bd_root, "Bom").attrib["name"]

HasLayers == DOMAIN bd_self.Layers = {DocLayerRefs[i] : i \in 1..Len(DocLayerRefs)}

InLayer == bd_pc \in {"StackupLayer", "LayerFeature", "Components"}

\* C15: the phases run in the order dictionaries, logistic header, BOM,
\* layers, profile and datum, packages: what a phase gives is there only
\* when everything the phases before it give is there; the five tables are
\* complete while any Layer is built; and inside one Layer the Layer record
\* has been read before anything of its features or components is there.
C15_PhaseOrder ==
    /\ (bd_pc # "Content" \/ bd_self.Role # NoAttrib \/ bd_self.Bom.loaded
            \/ DOMAIN bd_self.Layers # {}) => HasDictionaries
    /\ (bd_self.Bom.loaded \/ InLayer \/ DOMAIN bd_self.Layers # {}
            \/ bd_self.Profile # NoShape) => HasHeader
    /\ (InLayer \/ DOMAIN bd_self.Layers # {} \/ bd_self.Profile # NoShape) => HasBom
    /\ (bd_pc \in {"Datum", "Packages", "done"} \/ bd_self.Profile # NoShape
            \/ bd_self.Packages # NoPackages) => HasLayers
    /\ bd_pc \notin {"done", "error"} => bd_self.Packages = NoPackages
    /\ InLayer =>
           /\ bd_layer.function = find_where(bd_root, <<"Ecad", "CadData", "Layer">>,
                                             "name", bd_layer.name).attrib["layerFunction"]
           /\ bd_layer.name \notin DOMAIN bd_self.Layers
                  \/ \E i \in 1..(bd_next - 1) : DocLayerRefs[i] = bd_layer.name
    /\ bd_pc \in {"StackupLayer", "LayerFeature"} =>
           /\ bd_layer.nets = NoNets /\ bd_layer.nonet_geom = <<>>
           /\ bd_layer.vias = <<>> /\ bd_layer.pads_not_used = <<>>
           /\ bd_layer.components = <<>>

\* the features of the second layer are about to be read
C15_Witness ==
    /\ bd_pc = "LayerFeature" /\ bd_run = 1 /\ bd_next = 2
    /\ DocLayerRefs = <<"TOP", "BOT">>
    /\ HasLayerFeature("BOT")
    /\ DOMAIN bd_self.Layers = {"TOP"}
    /\ DOMAIN bd_self.Layers["TOP"].nets # {}
    /\ bd_layer.function = "SIGNAL"
    /\ "A" \in DOMAIN bd_self.user_dict
    /\ bd_self.Role # NoAttrib /\ Len(bd_self.Bom.bom_items) = 2

C17_FunctionOfTreeOnly ==
    /\ bd_err.exc # "NameError"
    /\ bd_pc = "done" =>
           /\ bd_self.Profile = parse_Profile(NewPCBAssembly, bd_root).obj.Profile
           /\ bd_self.Datum = parse_Datum(NewPCBAssembly, bd_root).obj.Datum
           /\ bd_self.Packages = load_Packages(NewPCBAssembly, bd_root).obj.Packages

\* C23: once parse_Content has returned, no later call of the constructor
\* (logistic header, BOM, history record, the Layers with their Sets, the
\* Profile, the Datum, the Packages) adds, removes or changes an entry of
\* the color, line description, fill description, standard or user
\* dictionary.
C23_DictionariesFrozen ==
    [][bd_pc \notin {"Content", "done"} =>
          DictionariesOf(bd_self') = DictionariesOf(bd_self)]_vars

\* a build has ended with entries in every table, a Layer with nets, the
\* Profile and a Package
C23_Witness ==
    /\ bd_pc = "done" /\ bd_run = 1
    /\ \A i \in 1..5 : "A" \in DOMAIN DictionariesOf(bd_self)[i]
    /\ \E n \in DOMAIN bd_self.Layers : DOMAIN bd_self.Layers[n].nets # {}
    /\ bd_self.Profile # NoShape
    /\ "0402" \in DOMAIN bd_self.Packages
    /\ bd_self.Bom.loaded /\ bd_self.Role # NoAttrib

\* the BomItems of the document, each loaded on its own, in document order
BomItemsOf(root) ==
    [i \in 1..Len(findall(find(root, "Bom"), "BomItem")) |->
        IPC2581_BomItem_load(findall(find(root, "Bom"), "BomItem")[i]).obj]

\* C26: parse_Bom is called before and after parse_HistoryRecord; after
\* either call, and to the end of the build, the Bom of the PCBAssembly
\* holds each BomItem of the document once, in document order.
C26_BomItemsOnce ==
    /\ bd_self.Bom.loaded => bd_self.Bom.bom_items = BomItemsOf(bd_root)
    /\ bd_pc \notin {"Content", "LogisticHeader", "Bom", "error"} => bd_self.Bom.loaded

\* the second call of parse_Bom has just returned
C26_Witness ==
    /\ bd_pc = "Layers" /\ bd_next = 1 /\ bd_run = 1
    /\ Len(findall(find(bd_root, "Bom"), "BomItem")) = 2
    /\ Len(bd_self.Bom.bom_items) = 2
    /\ bd_self.Bom.bom_items[1].OEM_design_number_ref = "10k"
    /\ bd_self.Bom.bom_items[2].OEM_design_number_ref = "NE555"

(***************************************************************************)
(* Transform (SpecXform)                                                   *)
(***************************************************************************)
\* what the coercer of a field of Transform gives for its attribute
XformRead(a, key) ==
    IF key = "mirror" THEN read_bool(a, key).val ELSE read_float(a, key).val

\* C11: after Transform.load, each of rotation, mirror, xOffset and yOffset
\* whose attribute the Xform element lacks holds the value the constructor
\* was given, whatever the other attributes are; a field whose attribute is
\* there holds what its coercer read.
C11_TransformFieldDefaults ==
    cl_fn = "IPC2581_Transform.load" =>
        /\ ~Failed(cl_out)
        /\ \A key \in XformKeys :
              cl_out.obj[key] = IF key \in DOMAIN cl_node.attrib
                                THEN XformRead(cl_node.attrib, key)
                                ELSE cl_self[key]

\* rotation is absent, the other three are there, and the constructor was
\* given a rotation that is not 0
C11_Witness ==
    /\ cl_fn = "IPC2581_Transform.load"
    /\ DOMAIN cl_node.attrib = XformKeys \ {"rotation"}
    /\ cl_self.rotation = FloatV(90, 0)
    /\ cl_out.obj.rotation = FloatV(90, 0)
    /\ cl_out.obj.mirror = BoolV(TRUE) /\ cl_self.mirror = BoolV(FALSE)
    /\ cl_out.obj.xOffset = FloatV(0 - 15, 0 - 1)

(***************************************************************************)
(* Point chains (SpecChain)                                                *)
(***************************************************************************)
ChainTags == {"PolyBegin", "PolyStepSegment", "PolyStepCurve"}

ChainKidsOf(node) == SelectSeq(node.kids, LAMBDA k : k.tag \in ChainTags)

\* one PolyBegin, first, then only steps
RingWellFormed(kids) ==
    /\ Len(kids) >= 1
    /\ kids[1].tag = "PolyBegin"
    /\ \A i \in 2..Len(kids) : kids[i].tag \in {"PolyStepSegment", "PolyStepCurve"}

\* an element the format allows: a Contour has one Polygon child
WellFormedShape(node) ==
    IF node.tag = "Contour"
    THEN /\ Len(findall(node, "Polygon")) = 1
         /\ \A i \in 1..Len(node.kids) : RingWellFormed(ChainKidsOf(node.kids[i]))
    ELSE RingWellFormed(ChainKidsOf(node))

LockStep(points, connections) == Len(connections) = Len(points) - 1

\* C5: after loading a Polygon, Polyline or Contour, every chain of the
\* result (the outer chain, and the cutout chain of a Contour that has Cutout
\* children) has one connection less than it has points.  Stated here for
\* the elements the format allows only.
C5_PointChainLength ==
    (ch_pc = "done" /\ ~Failed(ch_out) /\ WellFormedShape(ch_node)) =>
        /\ LockStep(ch_out.obj.points, ch_out.obj.connections)
        /\ (ch_node.tag = "Contour" /\ findall(ch_node, "Cutout") # <<>>) =>
               LockStep(ch_out.obj.cutout_points, ch_out.obj.cutout_connections)

\* the Contour with the boundary between its first two Cutouts moved one
\* point to the left: the last point of the first Cutout (a straight step)
\* becomes the PolyBegin of the second, whose old PolyBegin becomes a
\* straight step
ShiftedCutouts(cs) ==
    << [cs[1] EXCEPT !.kids = SubSeq(@, 1, Len(@) - 1)],
       [cs[2] EXCEPT !.kids =
           << E("PolyBegin", cs[1].kids[Len(cs[1].kids)].attrib, <<>>),
              E("PolyStepSegment", cs[2].kids[1].attrib, <<>>) >>
           \o Tail(@)] >>
    \o SubSeq(cs, 3, Len(cs))

ShiftBoundary(node) ==
    E("Contour", node.attrib,
      findall(node, "Polygon") \o ShiftedCutouts(findall(node, "Cutout")))

CanShift(cs) ==
    /\ Len(cs) >= 2
    /\ Len(cs[1].kids) >= 2
    /\ cs[1].kids[Len(cs[1].kids)].tag = "PolyStepSegment"

\* C6: a loaded Contour keeps one chain per Cutout child, so the points of
\* one cutout can be told apart from those of the next: a Contour whose
\* first cutout ends one point earlier (that point opening the second
\* cutout instead) loads into a different model.
C6_CutoutsKeptApart ==
    (/\ ch_pc = "done" /\ ch_node.tag = "Contour" /\ ~Failed(ch_out)
     /\ WellFormedShape(ch_node) /\ CanShift(findall(ch_node, "Cutout"))) =>
        IPC2581_Contour_load(ShiftBoundary(ch_node)).obj # ch_out.obj

(***************************************************************************)
(* Attribute Reader (SpecReader)                                           *)
(***************************************************************************)
\* the lexical forms of a boolean, in any case
BoolTexts == {<<"t", "r", "u", "e">>, <<"f", "a", "l", "s", "e">>, <<"1">>, <<"0">>}

\* the text can be parsed as the coercer's target type
Parsable(fn, text) ==
    CASE fn = "read_int"   -> ~IsRaise(PyInt(text))
      [] fn = "read_float" -> ~IsRaise(PyFloat(text))
      [] fn = "read_bool"  -> lower(text) \in BoolTexts
      [] OTHER -> FALSE

\* C10: read_int, read_float and read_bool never raise; a missing key gives
\* None without a diagnostic; a present value that cannot be parsed as the
\* target type gives None and a diagnostic.
C10_ReaderContract ==
    rd_fn \in {"read_int", "read_float", "read_bool"} =>
        /\ ~IsRaise(rd_out.val)
        /\ rd_key \notin DOMAIN rd_d => (rd_out.val = None /\ rd_out.warn = 0)
        /\ (rd_key \in DOMAIN rd_d /\ ~Parsable(rd_fn, rd_d[rd_key])) =>
               (rd_out.val = None /\ rd_out.warn > 0)

(***************************************************************************)
(* Geometry dispatch (SpecDispatch)                                        *)
(***************************************************************************)
GeometryVariants ==
    {"Circle", "Line", "RectCenter", "Oval", "Arc", "Contour", "Polygon", "Polyline"}

\* the non-geometry children a site has a branch for
HandledAt(site) ==
    CASE site = "Features" -> {"Location", "Xform", "UserPrimitiveRef"}
      [] site \in {"Outline", "AssemblyDrawing"} -> {"LineDesc"}
      [] OTHER -> {}

\* the children the site dispatches on, and the same container cut after
\* its first n children
DispatchedKids(node) ==
    IF node.tag = "AssemblyDrawing" THEN node.kids[1].kids ELSE node.kids

CutAfter(node, n) ==
    IF node.tag = "AssemblyDrawing"
    THEN E(node.tag, node.attrib,
           <<E("Outline", NoAttrib, SubSeq(node.kids[1].kids, 1, n))>>)
    ELSE E(node.tag, node.attrib, SubSeq(node.kids, 1, n))

LoadAt(self, node) ==
    CASE node.tag = "Features" -> load_feature(self, node)
      [] node.tag = "EntryStandard" -> StandardEntry(R(self, NoErr, <<>>), node)
      [] node.tag = "UserSpecial" -> IPC2581_UserSpecial_load(node)
      [] node.tag = "Outline" -> parse_Outline(R(self, NoErr, <<>>), node)
      [] node.tag = "AssemblyDrawing" -> parse_AssemblyDrawing(R(self, NoErr, <<>>), node)
      [] node.tag = "Profile" -> ProfileOrMissing(self, node)

UnknownAt(node) ==
    {i \in 1..Len(DispatchedKids(node)) :
        DispatchedKids(node)[i].tag \notin GeometryVariants \cup HandledAt(node.tag)}

FirstUnknown(node) == CHOOSE i \in UnknownAt(node) : \A j \in UnknownAt(node) : i <= j

\* C12: at each of the six dispatch sites, a container with a child whose
\* tag is neither a geometry variant nor a child the site handles never
\* loads: the call fails, and when the children before the first such child
\* load, the failure is the ValueError naming that child's tag.
C12_UnknownTagIsFatal ==
    (cl_fn # "" /\ UnknownAt(cl_node) # {}) =>
        /\ Failed(cl_out)
        /\ ~Failed(LoadAt(cl_self, CutAfter(cl_node, FirstUnknown(cl_node) - 1))) =>
              cl_out.err = Err("ValueError",
                               DispatchedKids(cl_node)[FirstUnknown(cl_node)].tag)

C12_Witness ==
    /\ cl_fn = "_parse_AssemblyDrawing"
    /\ Len(DispatchedKids(cl_node)) = 3
    /\ UnknownAt(cl_node) = {3}
    /\ DispatchedKids(cl_node)[1].tag = "LineDesc"
    /\ DispatchedKids(cl_node)[2].tag = "Circle"
    /\ cl_out.err = Err("ValueError", "Text")

(***************************************************************************)
(* Dictionaries (SpecDict)                                                 *)
(***************************************************************************)
\* the entries of a table in document order, and the document that holds
\* one of them alone
EntriesIn(root, table) == findall_path(root, <<"Content", DictTag(table), EntryTag(table)>>)

Alone(entry, table) ==
    E("IPC-2581", NoAttrib,
      <<E("Content", NoAttrib, <<E(DictTag(table), NoAttrib, <<entry>>)>>)>>)

\* the table the build of one entry alone gives
BuiltFrom(entry, table) == parse_Content(NewPCBAssembly, Alone(entry, table)).obj[table]

IdsIn(es) == {es[i].attrib["id"] : i \in 1..Len(es)}

LastWith(es, id) ==
    es[CHOOSE i \in 1..Len(es) :
          es[i].attrib["id"] = id /\ \A j \in (i + 1)..Len(es) : es[j].attrib["id"] # id]

HasContent(entry) == Len(entry.kids) > 0

WithContent(es) == SelectSeq(es, HasContent)

RefTags == {"FillDescRef", "UserPrimitiveRef", "StandardPrimitiveRef"}

\* the reference the element carries, and the table it refers to
RefIn(node) == FirstOrNone(SelectSeq(node.kids, LAMBDA k : k.tag \in RefTags))

RefTable(tag) ==
    CASE tag = "FillDescRef" -> "fill_desc_dictionary"
      [] tag = "UserPrimitiveRef" -> "user_dict"
      [] tag = "StandardPrimitiveRef" -> "standard_dict"

\* the raw ID the loaded object holds for its reference
KeptRaw(fn, obj, id) ==
    CASE fn \in {"IPC2581_Circle.load", "IPC2581_RectCenter.load", "IPC2581_Oval.load"} ->
            obj.fill_desc_ref = id
      [] fn = "load_feature" ->
            \E i \in 1..Len(obj.features) : obj.features[i] = [kind |-> "Ref", id |-> id]
      [] fn \in {"IPC2581_Pad.load", "IPC2581_Pin.load"} -> obj.std_prim_ref = id
      [] fn = "add_physical_net_point" ->
            /\ Len(obj.physical_net_points) = 1
            /\ obj.physical_net_points[1].primitive_ref = id

\* C14: whatever the dictionaries hold, loading an element that carries a
\* dictionary reference raises nothing and keeps the reference's raw ID.
C14_ReferencesKeptRaw ==
    cl_fn # "" =>
        /\ ~Failed(cl_out)
        /\ KeptRaw(cl_fn, cl_out.obj, RefIn(cl_node).attrib["id"])

(***************************************************************************)
(* Coercions in the geometry loaders (SpecCoercion)                        *)
(***************************************************************************)
\* C18: whichever numeric attribute of a geometry element holds a text that
\* is no number, the element's loader raises nothing.
C18_CoercionNeverFatal == cl_fn # "" => ~Failed(cl_out)

(***************************************************************************)
(* Packages (SpecPackage)                                                  *)
(***************************************************************************)
\* the Package element of the document, and whether it lacks a section
ThePackage == find_path(cl_node, <<"Ecad", "CadData", "Step", "Package">>)

Lacks(section) == IsNone(find(ThePackage, section))

Warned(msg) == \E i \in 1..Len(cl_out.log) : cl_out.log[i] = Warning(msg, cl_self.name)

\* the sections present can be read
ReadableAssemblyDrawing ==
    Lacks("AssemblyDrawing") \/ ~IsNone(find(find(ThePackage, "AssemblyDrawing"), "Outline"))

\* every Pin and every Pad of the LandPattern, in document order
AllPinsAndPads ==
    /\ cl_out.obj.pins =
          [i \in 1..Len(findall(ThePackage, "Pin")) |->
              IPC2581_Pin_load(findall(ThePackage, "Pin")[i]).obj]
    /\ cl_out.obj.land_pads =
          [i \in 1..Len(findall(find(ThePackage, "LandPattern"), "Pad")) |->
              IPC2581_Pad_load(findall(find(ThePackage, "LandPattern"), "Pad")[i]).obj]

\* C19: for a Package that lacks its Outline, its SilkScreen or its
\* AssemblyDrawing, parse_Package prints the warning of that section, leaves
\* the section's fields as the constructor set them and does not raise for
\* it; the sections after it are read, every Pin and every LandPattern Pad
\* in document order.
C19_SectionTolerance ==
    cl_fn = "parse_Package" =>
        /\ Failed(cl_out) <=> ~ReadableAssemblyDrawing
        /\ Lacks("Outline") =>
              (Warned("no Outline") /\ cl_out.obj.outline = NoShape)
        /\ Lacks("SilkScreen") =>
              (Warned("no SilkScreen") /\ cl_out.obj.silkscreen_markings = <<>>)
        /\ Lacks("AssemblyDrawing") =>
              /\ Warned("no AssemblyDrawing")
              /\ cl_out.obj.asm_dwg_outline = NoShape
              /\ cl_out.obj.asm_dwg_markings = <<>>
        /\ ~Lacks("Outline") => cl_out.obj.outline # NoShape
        /\ ~Lacks("SilkScreen") => Len(cl_out.obj.silkscreen_markings) = 1
        /\ ~Failed(cl_out) => AllPinsAndPads

\* no Outline, no SilkScreen, no AssemblyDrawing: two pins and two pads
C19_Witness ==
    /\ cl_fn = "parse_Package" /\ ~Failed(cl_out)
    /\ Lacks("Outline") /\ Lacks("SilkScreen") /\ Lacks("AssemblyDrawing")
    /\ Len(cl_out.log) = 3
    /\ Len(cl_out.obj.pins) = 2 /\ cl_out.obj.pins[2].number = "2"
    /\ Len(cl_out.obj.land_pads) = 2
    /\ cl_out.obj.land_pads[1].std_prim_ref = "S9"
    /\ cl_out.obj.PickupPoint # <<FloatV(0, 0), FloatV(0, 0)>>

\* C24: for a Package whose AssemblyDrawing has no Outline, parse_Package
\* does not raise, asm_dwg_outline stays None, the Markings of the
\* AssemblyDrawing are loaded into asm_dwg_markings, and the Pins and the
\* Pads of the LandPattern are read.
C24_AssemblyDrawingWithoutOutline ==
    (cl_fn = "parse_Package" /\ ~ReadableAssemblyDrawing) =>
        /\ ~Failed(cl_out)
        /\ cl_out.obj.asm_dwg_outline = NoShape
        /\ Len(cl_out.obj.asm_dwg_markings) =
              Len(findall(find(ThePackage, "AssemblyDrawing"), "Marking"))
        /\ AllPinsAndPads

\* C20: a Marking that Marking.load has loaded holds a polyline or a
\* contour, never both.
C20_MarkingExclusive ==
    (cl_fn = "IPC2581_Marking.load" /\ ~Failed(cl_out)) =>
        ~(cl_out.obj.polyline # NoShape /\ cl_out.obj.contour # NoShape)

(***************************************************************************)
(* Geometry variants (SpecVariant)                                         *)
(***************************************************************************)
\* the kinds of the shapes a site has kept: all of them in order where the
\* site appends, the last one where it assigns
KindsOf(shapes) == [i \in 1..Len(shapes) |-> shapes[i].kind]

KeptKinds(site, obj) ==
    CASE site = "Features" -> KindsOf(obj.features)
      [] site = "UserSpecial" -> KindsOf(obj.shapes)
      [] site = "EntryStandard" -> <<obj.standard_dict["S1"].kind>>
      [] site = "Outline" -> <<obj.outline.kind>>
      [] site = "AssemblyDrawing" -> <<obj.asm_dwg_outline.kind>>
      [] site = "Profile" -> <<obj.Profile.kind>>

TagsOf(kids) == [i \in 1..Len(kids) |-> kids[i].tag]

\* C21: at each dispatch site, a container whose children are shapes of the
\* eight geometry tags loads, and each child is loaded into the variant of
\* its tag.
C21_EveryVariantAccepted ==
    cl_fn # "" =>
        /\ ~Failed(cl_out)
        /\ IF cl_node.tag \in {"Features", "UserSpecial"}
           THEN KeptKinds(cl_node.tag, cl_out.obj) = TagsOf(DispatchedKids(cl_node))
           ELSE KeptKinds(cl_node.tag, cl_out.obj) =
                   <<DispatchedKids(cl_node)[Len(DispatchedKids(cl_node))].tag>>

(***************************************************************************)
(* Sets of a layer (Spec)                                                 *)
(***************************************************************************)
\* the Set of the pass of the loop that has just ended, in a step of NextSet
PassedSet == lf_seen'[Len(lf_seen')]

OtherPadUsage(set_node) ==
    /\ "net" \in DOMAIN set_node.attrib
    /\ "padUsage" \in DOMAIN set_node.attrib
    /\ set_node.attrib["padUsage"] \notin {"VIA", "NONE"}

\* how many of vias, pads_not_used, nets and nonet_geom a step changes
ChangedCollections ==
    Cardinality({f \in {"vias", "pads_not_used", "nets", "nonet_geom"} :
                    lf_layer'[f] # lf_layer[f]})

\* C25: a Set with a net and a padUsage that is neither VIA nor NONE is
\* passed over: no exception, nothing printed, and vias, pads_not_used,
\* nets and nonet_geom as they were; and no Set changes more than one of
\* the four.
C25_OtherPadUsageDropped ==
    [][Len(lf_seen') = Len(lf_seen) + 1 =>
          /\ OtherPadUsage(PassedSet) =>
                (lf_pc' = "sets" /\ lf_layer' = lf_layer /\ lf_log' = lf_log)
          /\ ChangedCollections <= 1]_vars

\* a net and a no-net record are there, then a TERMINATION Set with a Pad
\* and Features for a net that has no LayerNet
C25_Witness ==
    /\ lf_pc = "sets" /\ Len(lf_seen) = 3
    /\ OtherPadUsage(lf_seen[3])
    /\ lf_seen[3].attrib["net"] = "VCC" /\ ~IsNone(find(lf_seen[3], "Features"))
    /\ DOMAIN lf_layer.nets = {"GND"}
    /\ Len(lf_layer.nonet_geom) = 1
    /\ lf_layer.vias = <<>> /\ lf_layer.pads_not_used = <<>>

\* the net records of the layer and its no-net records
LayerNetRecords ==
    {lf_layer.nets[n] : n \in DOMAIN lf_layer.nets}
    \cup {lf_layer.nonet_geom[i] : i \in 1..Len(lf_layer.nonet_geom)}

\* C22: whatever Sets parse_LayerFeature has processed, each LayerNet of
\* the layer and each no-net record holds as many feature_locations as
\* features, entry i of the one going with entry i of the other.
C22_ParallelLists ==
    \A net \in LayerNetRecords : Len(net.features) = Len(net.feature_locations)

(***************************************************************************)
(* The Transform of a LayerNet (SpecGrouping)                              *)
(***************************************************************************)
\* the Xform children of the Features of the Sets seen for a net, in
\* document order
GroupingsOf(net_name) ==
    SelectSeq(lf_seen, LAMBDA set_node :
                  "net" \in DOMAIN set_node.attrib /\ set_node.attrib["net"] = net_name)

XformsOf(net_name) ==
    KidsTaggedFrom(KidsTaggedFrom(GroupingsOf(net_name), "Features", 1), "Xform", 1)

LastXformOf(net_name) ==
    IF XformsOf(net_name) = <<>> THEN NoTransform
    ELSE IPC2581_Transform_load(DefaultTransform,
                                XformsOf(net_name)[Len(XformsOf(net_name))]).obj

\* C27: after any Sets of a net, the Xform of its LayerNet is the Transform
\* loaded from the last Xform child of all their Features in document
\* order, None when there was none; a Set without Xform leaves it as it
\* was.
C27_XformOverwritten ==
    \A net_name \in DOMAIN lf_layer.nets :
        lf_layer.nets[net_name].Xform = LastXformOf(net_name)

\* two Xforms in the first Set of GND, one in the second, none in the
\* third, which adds its feature under the Transform of the second
C27_Witness ==
    /\ lf_pc = "sets" /\ Len(lf_seen) = 3
    /\ Len(GroupingsOf("GND")) = 3
    /\ Len(XformsOf("GND")) = 3
    /\ Len(findall(find(lf_seen[1], "Features"), "Xform")) = 2
    /\ findall(find(lf_seen[3], "Features"), "Xform") = <<>>
    /\ Len(lf_layer.nets["GND"].features) = 3
    /\ lf_layer.nets["GND"].Xform.rotation = FloatV(90, 0)

=============================================================================
